---- MODULE Spec2Model ----
(***************************************************************************)
(* Model of nextjs-server-actions-highlighter: the extraction of call-site  *)
(* candidates and name sets (core/calls.ts, core/definitions.ts) and the    *)
(* correlation pass computeHighlights (analyzer/compute.ts) with its        *)
(* bounded scheduler, as driven by the updater (extension/updater.ts);     *)
(* the exclusion patterns (exclude.ts), the debounced controller with the  *)
(* decoration bundles, and the link-chasing oracle (extension/resolver.ts).*)
(*                                                                         *)
(* A source file is a sequence of syntax nodes in document order.  Each     *)
(* node is a record with a "kind" (the TypeScript SyntaxKind), the offsets  *)
(* getStart()/getEnd() in "pos"/"end", and the fields the scanners read.    *)
(***************************************************************************)
EXTENDS Integers, Sequences, FiniteSets, TLC

\* ------------------------------------------------------------------------
\* Bounds of the model
\* ------------------------------------------------------------------------
\* number of call-site nodes in the body of the analysed file
MaxCalls == 3
\* bounds.maxConcurrent is drawn from 1..MaxConcurrentBound
MaxConcurrentBound == 2
\* bounds.maxResolutions is drawn from 1..MaxResolutionsBound
MaxResolutionsBound == 2

\* `undefined` for an optional string (and the empty text of a missing
\* identifier): both are falsy in `c.calleeName && ...`
NoName == ""
\* `undefined` for options.visibleRange
NoRange == [start |-> -1, end |-> -1]

\* ------------------------------------------------------------------------
\* Syntax nodes
\* ------------------------------------------------------------------------
NameLen(n) ==
    CASE n = "act" -> 3
      [] n = "imp" -> 3
      [] n = "loc" -> 3
      [] n = "glob" -> 4
      [] n = "ns" -> 2
      [] n = "obj" -> 3
      [] n = "fn" -> 2
      [] n = "group" -> 5
      [] n = "startTransition" -> 15
      [] n = "useActionState" -> 14
      [] n = "wrap" -> 4
      [] OTHER -> 0

\* an identifier token at offset p; a missing identifier (parser recovery,
\* e.g. the name of `obj.()`) has the empty text and zero width
Identifier(n, p) ==
    [kind |-> "Identifier", text |-> n, pos |-> p, end |-> p + NameLen(n)]

\* base.name
PropertyAccess(base, n) ==
    [kind |-> "PropertyAccessExpression", expression |-> base,
     name |-> Identifier(n, base.end + 1), pos |-> base.pos,
     end |-> base.end + 1 + NameLen(n)]

\* base['x']
ElementAccess(base) ==
    [kind |-> "ElementAccessExpression", expression |-> base,
     pos |-> base.pos, end |-> base.end + 5]

\* (e)
Parenthesized(e, p) ==
    [kind |-> "ParenthesizedExpression", expression |-> e,
     pos |-> p, end |-> e.end + 1]

\* e!
NonNull(e) ==
    [kind |-> "NonNullExpression", expression |-> e,
     pos |-> e.pos, end |-> e.end + 1]

\* e as T
AsExpression(e) ==
    [kind |-> "AsExpression", expression |-> e, pos |-> e.pos, end |-> e.end + 5]

\* <T>e
TypeAssertion(e) ==
    [kind |-> "TypeAssertionExpression", expression |-> e, pos |-> e.pos - 3,
     end |-> e.end]

\* e satisfies T
Satisfies(e) ==
    [kind |-> "SatisfiesExpression", expression |-> e, pos |-> e.pos,
     end |-> e.end + 12]

\* callee(args)
Call(callee, args) ==
    [kind |-> "CallExpression", expression |-> callee, arguments |-> args,
     pos |-> callee.pos,
     end |-> IF args = <<>> THEN callee.end + 2
             ELSE args[Len(args)].end + 1]

\* a block { statements }
Block(stmts, p, e) ==
    [kind |-> "Block", statements |-> stmts, pos |-> p, end |-> e]

\* 'text';
Directive(text, p) ==
    [kind |-> "ExpressionStatement",
     expression |-> [kind |-> "StringLiteral", text |-> text, pos |-> p,
                     end |-> p + 12],
     pos |-> p, end |-> p + 13]

\* expr;
ExpressionStatement(e) ==
    [kind |-> "ExpressionStatement", expression |-> e, pos |-> e.pos,
     end |-> e.end + 1]

\* [async] () => body      (mods: the modifier keywords present)
ArrowFunction(mods, body, p) ==
    [kind |-> "ArrowFunction", modifiers |-> mods, body |-> body,
     pos |-> p, end |-> body.end]

\* [export] [default] [async] function name body
FunctionDeclaration(mods, name, body, p) ==
    [kind |-> "FunctionDeclaration", modifiers |-> mods, name |-> name,
     body |-> body, pos |-> p, end |-> body.end]

\* [export] const name = initializer;
VariableStatement(mods, name, init, p) ==
    [kind |-> "VariableStatement", modifiers |-> mods,
     declarations |-> <<[kind |-> "VariableDeclaration", name |-> name,
                         initializer |-> init, pos |-> name.pos,
                         end |-> init.end]>>,
     pos |-> p, end |-> init.end + 1]

\* import [type] default, { named... } | * as ns from '...'
ImportDeclaration(typeOnly, default, bindings, p) ==
    [kind |-> "ImportDeclaration",
     importClause |-> [isTypeOnly |-> typeOnly, name |-> default,
                       namedBindings |-> bindings],
     pos |-> p, end |-> p + 20]

NamedImports(elements) ==
    [kind |-> "NamedImports", elements |-> elements]

NamespaceImport(n) ==
    [kind |-> "NamespaceImport", name |-> n]

\* attr={expr}
JsxAttribute(attr, expr, p) ==
    [kind |-> "JsxAttribute", name |-> [kind |-> "Identifier", text |-> attr],
     initializer |-> [kind |-> "JsxExpression", expression |-> expr],
     pos |-> p, end |-> expr.end + 1]

\* `undefined` where a node is optional
NoNode == [kind |-> "undefined"]

\* the children ts.forEachChild visits, in document order
Children(n) ==
    CASE n.kind = "CallExpression" -> <<n.expression>> \o n.arguments
      [] n.kind = "PropertyAccessExpression" -> <<n.expression, n.name>>
      [] n.kind = "ElementAccessExpression" -> <<n.expression>>
      [] n.kind = "ParenthesizedExpression" -> <<n.expression>>
      [] n.kind = "NonNullExpression" -> <<n.expression>>
      [] n.kind = "AsExpression" -> <<n.expression>>
      [] n.kind = "TypeAssertionExpression" -> <<n.expression>>
      [] n.kind = "SatisfiesExpression" -> <<n.expression>>
      [] n.kind = "ArrowFunction" -> <<n.body>>
      [] n.kind = "FunctionDeclaration" ->
            (IF n.name = NoNode THEN <<>> ELSE <<n.name>>) \o
            (IF n.body = NoNode THEN <<>> ELSE <<n.body>>)
      [] n.kind = "Block" -> n.statements
      [] n.kind = "ExpressionStatement" -> <<n.expression>>
      [] n.kind = "VariableStatement" -> n.declarations
      [] n.kind = "VariableDeclaration" -> <<n.name, n.initializer>>
      [] n.kind = "JsxAttribute" -> <<n.initializer.expression>>
      [] OTHER -> <<>>

\* ------------------------------------------------------------------------
\* core/calls.ts: scanCallSiteCandidates
\* ------------------------------------------------------------------------
\* the fixed bound of unwrap's loop
UnwrapLimit == 8

WrapperKinds ==
    {"ParenthesizedExpression", "NonNullExpression", "AsExpression",
     "TypeAssertionExpression", "SatisfiesExpression"}

RECURSIVE unwrapFrom(_, _)
unwrapFrom(cur, i) ==
    IF i < UnwrapLimit /\ cur.kind \in WrapperKinds
    THEN unwrapFrom(cur.expression, i + 1)
    ELSE cur

\* an unwrap that strips every wrapper layer, however many
RECURSIVE unwrapAll(_)
unwrapAll(e) ==
    IF e.kind \in WrapperKinds THEN unwrapAll(e.expression) ELSE e

unwrap(e) == unwrapFrom(e, 0)

isIdentifier(n) == n.kind = "Identifier"

getCalleeIdent(expr) ==
    LET e == unwrap(expr) IN
    IF isIdentifier(e) THEN e
    ELSE IF e.kind = "PropertyAccessExpression"
    THEN (IF isIdentifier(e.name) THEN e.name ELSE NoNode)
    ELSE IF "name" \in DOMAIN e /\ isIdentifier(e.name) THEN e.name
    ELSE NoNode

\* a qualifier lookup that follows a property-access chain down to its
\* leftmost identifier instead of stopping after one level
RECURSIVE leftmostIdent(_)
leftmostIdent(e) ==
    IF isIdentifier(e) THEN e
    ELSE IF "expression" \in DOMAIN e THEN leftmostIdent(e.expression)
    ELSE NoNode

getQualifierOfChain(expr) ==
    LET e == unwrap(expr) IN
    IF e.kind = "PropertyAccessExpression" THEN leftmostIdent(e.expression)
    ELSE NoNode

getQualifierIdent(expr) ==
    LET e == unwrap(expr) IN
    IF e.kind = "PropertyAccessExpression"
    THEN (IF isIdentifier(e.expression) THEN e.expression ELSE NoNode)
    ELSE IF "expression" \in DOMAIN e /\ isIdentifier(e.expression)
    THEN e.expression
    ELSE NoNode

\* qualifier?.text
TextOrNone(id) == IF id = NoNode THEN NoName ELSE id.text

CallSiteSpan(kind, start, end, calleeName, qualifierName) ==
    [kind |-> kind, start |-> start, end |-> end,
     calleeName |-> calleeName, qualifierName |-> qualifierName]

\* a push that appends every candidate it is handed
pushAll(calls, c) == Append(calls, c)

\* push: append unless a candidate with the same span was already pushed
push(calls, c) ==
    IF \E i \in 1..Len(calls) :
          calls[i].start = c.start /\ calls[i].end = c.end
    THEN calls
    ELSE Append(calls, c)

\* the candidates the visit closure of the startTransition rule hands to
\* push over a subtree, in order
RECURSIVE visitTransition(_)
RECURSIVE visitTransitionAll(_)
visitTransition(n) ==
    LET ident == IF n.kind = "CallExpression"
                 THEN getCalleeIdent(n.expression) ELSE NoNode
    IN (IF ident # NoNode
        THEN <<CallSiteSpan("startTransition", ident.pos, n.end, ident.text,
                            TextOrNone(getQualifierIdent(n.expression)))>>
        ELSE <<>>)
       \o visitTransitionAll(Children(n))

visitTransitionAll(ns) ==
    IF ns = <<>> THEN <<>>
    ELSE visitTransition(Head(ns)) \o visitTransitionAll(Tail(ns))

\* the candidates the rules of walk hand to push for one node, in order
\* (without the descent)
walkNode(node) ==
    LET jsx ==
            IF /\ node.kind = "JsxAttribute"
               /\ node.name.text \in {"action", "formAction"}
               /\ node.initializer.kind = "JsxExpression"
               /\ node.initializer.expression # NoNode
            THEN <<CallSiteSpan(IF node.name.text = "action"
                                THEN "jsxAction" ELSE "jsxFormAction",
                                node.initializer.expression.pos,
                                node.initializer.expression.end,
                                NoName, NoName)>>
            ELSE <<>>
    IN
    IF node.kind # "CallExpression" THEN jsx
    ELSE
    LET id == getCalleeIdent(node.expression)
        calleeText == TextOrNone(id)
        direct ==
            IF id # NoNode
            THEN <<CallSiteSpan("directCall", id.pos, node.end, calleeText,
                                TextOrNone(getQualifierIdent(node.expression)))>>
            ELSE <<>>
        transition ==
            IF /\ calleeText = "startTransition"
               /\ Len(node.arguments) > 0
               /\ node.arguments[1].kind \in {"ArrowFunction", "FunctionExpression"}
            THEN visitTransition(node.arguments[1].body)
            ELSE <<>>
        hook ==
            IF /\ calleeText = "useActionState"
               /\ Len(node.arguments) > 0
               /\ isIdentifier(node.arguments[1])
            THEN <<CallSiteSpan("useActionState", node.arguments[1].pos,
                                node.arguments[1].end,
                                node.arguments[1].text, NoName)>>
            ELSE <<>>
    IN jsx \o direct \o transition \o hook

\* walk: the node's own rules, then ts.forEachChild(node, walk)
RECURSIVE walk(_)
RECURSIVE walkAll(_)
walk(node) == walkNode(node) \o walkAll(Children(node))

walkAll(ns) ==
    IF ns = <<>> THEN <<>>
    ELSE walk(Head(ns)) \o walkAll(Tail(ns))

\* `calls` after push has received the first k of the candidates cs
RECURSIVE pushed(_, _)
pushed(cs, k) ==
    IF k = 0 THEN <<>> ELSE push(pushed(cs, k - 1), cs[k])

scanCallSiteCandidates(file) ==
    LET cs == walkAll(file.statements) IN pushed(cs, Len(cs))

\* ------------------------------------------------------------------------
\* core/calls.ts: name collectors
\* ------------------------------------------------------------------------
\* names of a sequence of import specifiers that are not type-only
RECURSIVE valueSpecifierNames(_)
valueSpecifierNames(elements) ==
    IF elements = <<>> THEN {}
    ELSE (IF Head(elements).isTypeOnly THEN {} ELSE {Head(elements).name})
         \cup valueSpecifierNames(Tail(elements))

\* a collector that does not look at the type-only marks
importedNamesWithTypes(s) ==
    IF s.kind # "ImportDeclaration" \/ s.importClause = NoNode THEN {}
    ELSE (IF s.importClause.name # NoName THEN {s.importClause.name} ELSE {})
         \cup (IF s.importClause.namedBindings.kind = "NamedImports"
               THEN {s.importClause.namedBindings.elements[i].name :
                        i \in 1..Len(s.importClause.namedBindings.elements)}
               ELSE {})

importedNamesOf(s) ==
    IF s.kind # "ImportDeclaration" \/ s.importClause = NoNode THEN {}
    ELSE IF s.importClause.isTypeOnly THEN {}
    ELSE (IF s.importClause.name # NoName THEN {s.importClause.name} ELSE {})
         \cup (IF s.importClause.namedBindings.kind = "NamedImports"
               THEN valueSpecifierNames(s.importClause.namedBindings.elements)
               ELSE {})

collectImportedNames(sf) ==
    UNION {importedNamesOf(sf.statements[i]) : i \in 1..Len(sf.statements)}

namespaceNamesOf(s) ==
    IF s.kind # "ImportDeclaration" \/ s.importClause = NoNode THEN {}
    ELSE IF s.importClause.isTypeOnly THEN {}
    ELSE IF s.importClause.namedBindings.kind = "NamespaceImport"
    THEN {s.importClause.namedBindings.name}
    ELSE {}

collectNamespaceImportNames(sf) ==
    UNION {namespaceNamesOf(sf.statements[i]) : i \in 1..Len(sf.statements)}

isFunctionLiteral(n) == n.kind \in {"ArrowFunction", "FunctionExpression"}

\* whether a subtree holds a function literal (the visit closure's `found`)
RECURSIVE containsFunctionLiteral(_)
RECURSIVE anyContainsFunctionLiteral(_)
containsFunctionLiteral(n) ==
    isFunctionLiteral(n) \/ anyContainsFunctionLiteral(Children(n))

anyContainsFunctionLiteral(ns) ==
    IF ns = <<>> THEN FALSE
    ELSE containsFunctionLiteral(Head(ns)) \/ anyContainsFunctionLiteral(Tail(ns))

RECURSIVE callableDeclNames(_)
callableDeclNames(decls) ==
    IF decls = <<>> THEN {}
    ELSE LET d == Head(decls) IN
         (IF /\ isIdentifier(d.name)
             /\ d.initializer # NoNode
             /\ \/ isFunctionLiteral(d.initializer)
                \/ anyContainsFunctionLiteral(Children(d.initializer))
          THEN {d.name.text} ELSE {})
         \cup callableDeclNames(Tail(decls))

RECURSIVE localCallableWalk(_)
RECURSIVE localCallableWalkAll(_)
localCallableWalk(node) ==
    (IF node.kind = "FunctionDeclaration" /\ node.name # NoNode
     THEN {node.name.text} ELSE {})
    \cup (IF node.kind = "VariableStatement"
          THEN callableDeclNames(node.declarations) ELSE {})
    \cup localCallableWalkAll(Children(node))

localCallableWalkAll(ns) ==
    IF ns = <<>> THEN {}
    ELSE localCallableWalk(Head(ns)) \cup localCallableWalkAll(Tail(ns))

collectLocalCallableNames(sf) == localCallableWalkAll(sf.statements)

\* ------------------------------------------------------------------------
\* core/definitions.ts: scanServerActions
\* ------------------------------------------------------------------------
RECURSIVE isUseServerPrologue(_)
isUseServerPrologue(statements) ==
    IF statements = <<>> THEN FALSE
    ELSE LET s == Head(statements) IN
         IF /\ s.kind = "ExpressionStatement"
            /\ s.expression.kind \in {"StringLiteral", "NoSubstitutionTemplateLiteral"}
         THEN s.expression.text = "use server" \/ isUseServerPrologue(Tail(statements))
         ELSE FALSE

hasUseServerInFunctionBody(fn) ==
    IF fn.body = NoNode THEN FALSE
    ELSE IF fn.body.kind = "Block" THEN isUseServerPrologue(fn.body.statements)
    ELSE FALSE

isExported(mods) == "export" \in mods
isDefault(mods) == "default" \in mods
isAsync(node) == "async" \in node.modifiers

\* `undefined` for nameStart/nameEnd
NoOffset == -1

ServerActionSpan(name, bodyStart, bodyEnd, nameStart, nameEnd) ==
    [name |-> name, bodyStart |-> bodyStart, bodyEnd |-> bodyEnd,
     nameStart |-> nameStart, nameEnd |-> nameEnd]

\* a pushAction without the `seen` test
pushEveryAction(actions, a) == Append(actions, a)

pushAction(actions, a) ==
    IF \E i \in 1..Len(actions) :
          actions[i].bodyStart = a.bodyStart /\ actions[i].bodyEnd = a.bodyEnd
    THEN actions
    ELSE Append(actions, a)

\* an eligibility condition under which the module-level directive
\* qualifies every async function, exported or not
eligibleByModuleMarker(fn, exported, moduleHasUseServer) ==
    isAsync(fn) /\ (moduleHasUseServer \/ hasUseServerInFunctionBody(fn))

\* the eligibility condition shared by the declaration rules
eligible(fn, exported, moduleHasUseServer) ==
    /\ isAsync(fn)
    /\ \/ exported /\ (moduleHasUseServer \/ hasUseServerInFunctionBody(fn))
       \/ ~exported /\ hasUseServerInFunctionBody(fn)

\* the spans the nested visit of a variable initializer hands to pushAction
RECURSIVE visitInitializer(_, _, _, _)
RECURSIVE visitInitializerAll(_, _, _, _)
visitInitializer(n, nameId, exported, m) ==
    (IF /\ isFunctionLiteral(n)
        /\ eligible(n, exported, m)
        /\ n.body # NoNode
     THEN <<ServerActionSpan(nameId.text, n.body.pos, n.body.end,
                             nameId.pos, nameId.end)>>
     ELSE <<>>)
    \o visitInitializerAll(Children(n), nameId, exported, m)

visitInitializerAll(ns, nameId, exported, m) ==
    IF ns = <<>> THEN <<>>
    ELSE visitInitializer(Head(ns), nameId, exported, m)
         \o visitInitializerAll(Tail(ns), nameId, exported, m)

\* the loop over the declarations of a variable statement
RECURSIVE scanDeclarations(_, _, _)
scanDeclarations(decls, exported, m) ==
    IF decls = <<>> THEN <<>>
    ELSE LET d == Head(decls)
             direct ==
                 IF /\ isFunctionLiteral(d.initializer)
                    /\ eligible(d.initializer, exported, m)
                    /\ d.initializer.body # NoNode
                 THEN <<ServerActionSpan(d.name.text, d.initializer.body.pos,
                                         d.initializer.body.end,
                                         d.name.pos, d.name.end)>>
                 ELSE <<>>
         IN (IF isIdentifier(d.name) /\ d.initializer # NoNode
             THEN direct \o visitInitializer(d.initializer, d.name, exported, m)
             ELSE <<>>)
            \o scanDeclarations(Tail(decls), exported, m)

\* the spans the rules of scanServerActions' walk hand to pushAction for
\* one node, in order (without the descent)
actionNode(node, m) ==
    LET fromFunction ==
            IF /\ node.kind = "FunctionDeclaration"
               /\ eligible(node, isExported(node.modifiers), m)
               /\ node.body # NoNode
            THEN <<ServerActionSpan(
                       IF node.name # NoNode THEN node.name.text
                       ELSE IF isExported(node.modifiers) /\ isDefault(node.modifiers)
                            THEN "default" ELSE "(anonymous)",
                       node.body.pos, node.body.end,
                       IF node.name # NoNode THEN node.name.pos ELSE NoOffset,
                       IF node.name # NoNode THEN node.name.end ELSE NoOffset)>>
            ELSE <<>>
        fromVariable ==
            IF node.kind = "VariableStatement"
            THEN scanDeclarations(node.declarations, isExported(node.modifiers), m)
            ELSE <<>>
        inline ==
            IF /\ isFunctionLiteral(node)
               /\ isAsync(node)
               /\ hasUseServerInFunctionBody(node)
               /\ node.body # NoNode
            THEN <<ServerActionSpan("(inline)", node.body.pos, node.body.end,
                                    NoOffset, NoOffset)>>
            ELSE <<>>
    IN fromFunction \o fromVariable \o inline

RECURSIVE actionWalk(_, _)
RECURSIVE actionWalkAll(_, _)
actionWalk(node, m) == actionNode(node, m) \o actionWalkAll(Children(node), m)

actionWalkAll(ns, m) ==
    IF ns = <<>> THEN <<>>
    ELSE actionWalk(Head(ns), m) \o actionWalkAll(Tail(ns), m)

\* `actions` after pushAction has received the first k of the spans as
RECURSIVE pushedActions(_, _)
pushedActions(as, k) ==
    IF k = 0 THEN <<>> ELSE pushAction(pushedActions(as, k - 1), as[k])

scanServerActions(file) ==
    LET as == actionWalkAll(file.statements, isUseServerPrologue(file.statements))
    IN pushedActions(as, Len(as))

\* ------------------------------------------------------------------------
\* The analysed files
\* ------------------------------------------------------------------------
\* import imp from './x'; import * as ns from './a';
\* async function act() { 'use server'; }   function loc() {}
Header ==
    << ImportDeclaration(FALSE, "imp", NoNode, 0),
       ImportDeclaration(FALSE, NoName, NamespaceImport("ns"), 25),
       FunctionDeclaration({"async"}, Identifier("act", 60),
                           Block(<<Directive("use server", 68)>>, 66, 84), 45),
       FunctionDeclaration({}, Identifier("loc", 95), Block(<<>>, 101, 103), 86) >>

\* the call-site statements a file body is built from
CallShapes ==
    {"jsx", "act", "imp", "glob", "ns.fn", "ns.group.fn", "obj.()"}

\* offset of the k-th statement of the body
Base(k) == 110 + 20 * (k - 1)

Shape(name, o) ==
    CASE name = "jsx" -> JsxAttribute("action", Identifier("imp", o + 8), o)
      [] name = "act" -> ExpressionStatement(Call(Identifier("act", o), <<>>))
      [] name = "imp" -> ExpressionStatement(Call(Identifier("imp", o), <<>>))
      [] name = "glob" -> ExpressionStatement(Call(Identifier("glob", o), <<>>))
      [] name = "ns.fn" ->
            ExpressionStatement(Call(PropertyAccess(Identifier("ns", o), "fn"), <<>>))
      [] name = "ns.group.fn" ->
            ExpressionStatement(
                Call(PropertyAccess(PropertyAccess(Identifier("ns", o), "group"), "fn"),
                     <<>>))
      [] name = "obj.()" ->
            ExpressionStatement(Call(PropertyAccess(Identifier("obj", o), NoName), <<>>))

\* one statement per line: the offsets of the line feeds of the text
LineFeeds(body) ==
    {24, 44, 85, 104} \cup {Base(k) + 19 : k \in 1..Len(body)}

SourceFile(body) ==
    [statements |-> Header \o [k \in 1..Len(body) |-> Shape(body[k], Base(k))],
     lineFeeds |-> LineFeeds(body),
     length |-> Base(Len(body)) + 20]

\* a body: up to MaxCalls distinct statements
Bodies ==
    {b \in UNION {[1..n -> CallShapes] : n \in 1..MaxCalls} :
        \A i, j \in DOMAIN b : i # j => b[i] # b[j]}

\* options.visibleRange values tried
VisibleRanges ==
    {NoRange, [start |-> 135, end |-> 150]}

\* ------------------------------------------------------------------------
\* The files the extraction functions are applied to
\* ------------------------------------------------------------------------
\* a file has up to MaxScanStatements statements after its head
MaxScanStatements == 2
\* a callee is wrapped in 0..MaxLayers wrapper layers
MaxLayers == 10

\* offset of the k-th statement; a statement takes at most 80 characters
ScanBase(k) == 100 + 80 * (k - 1)

\* the leading directives of a module or of a function body
Prologue(marker, p) ==
    CASE marker = "first" -> <<Directive("use server", p)>>
      [] marker = "second" ->
            <<Directive("use strict", p), Directive("use server", p + 14)>>
      [] OTHER -> <<>>

\* modifier keywords
Mods(exported, default, async) ==
    (IF exported THEN {"export"} ELSE {})
    \cup (IF exported /\ default THEN {"default"} ELSE {})
    \cup (IF async THEN {"async"} ELSE {})

\* the name declared by the k-th statement
DeclName(k) == IF k = 1 THEN "act" ELSE IF k = 2 THEN "loc" ELSE "fn"

\* the declarations and inline literals a definitions file is built from
DefinitionShapes ==
    [form : {"function"}, exported : {TRUE}, default : BOOLEAN,
     async : BOOLEAN, marker : {"none", "first", "second"}]
    \cup [form : {"function"}, exported : {FALSE}, default : {FALSE},
          async : BOOLEAN, marker : {"none", "first", "second"}]
    \cup [form : {"variable"}, exported : BOOLEAN, default : {FALSE},
          async : BOOLEAN, marker : {"none", "first", "expression"}]
    \cup [form : {"nested", "inner"}, exported : BOOLEAN, default : {FALSE},
          async : BOOLEAN, marker : {"none", "first"}]
    \cup [form : {"inline"}, exported : {FALSE}, default : {FALSE},
          async : BOOLEAN, marker : {"none", "first"}]

DefinitionStatement(d, k) ==
    LET o == ScanBase(k)
        body == Block(Prologue(d.marker, o + 41), o + 40, o + 78)
        arrowBody == IF d.marker = "expression"
                     THEN Identifier("imp", o + 40) ELSE body
    IN
    CASE d.form = "function" ->
            \* [export] [default] [async] function [name]() { ... }
            FunctionDeclaration(Mods(d.exported, d.default, d.async),
                                IF d.default THEN NoNode
                                ELSE Identifier(DeclName(k), o + 30),
                                body, o)
      [] d.form = "variable" ->
            \* [export] const name = [async] () => { ... } | expr
            VariableStatement(Mods(d.exported, FALSE, FALSE),
                              Identifier(DeclName(k), o + 13),
                              ArrowFunction(Mods(FALSE, FALSE, d.async),
                                            arrowBody, o + 20), o)
      [] d.form = "nested" ->
            \* [export] const name = wrap([async] () => { ... })
            VariableStatement(Mods(d.exported, FALSE, FALSE),
                              Identifier(DeclName(k), o + 13),
                              Call(Identifier("wrap", o + 20),
                                   <<ArrowFunction(Mods(FALSE, FALSE, d.async),
                                                   body, o + 25)>>), o)
      [] d.form = "inline" ->
            \* action={[async] () => { ... }}
            JsxAttribute("action",
                         ArrowFunction(Mods(FALSE, FALSE, d.async), body, o + 8),
                         o)
      [] d.form = "inner" ->
            \* [export] [async] function name() { ...; async function fn() {} }
            FunctionDeclaration(
                Mods(d.exported, FALSE, d.async), Identifier(DeclName(k), o + 30),
                Block(Prologue(d.marker, o + 41)
                      \o <<FunctionDeclaration({"async"}, Identifier("fn", o + 66),
                                               Block(<<>>, o + 71, o + 73),
                                               o + 56)>>,
                      o + 40, o + 78),
                o)

\* the head of a definitions file: its leading directives
ModuleMarkers == {"none", "first", "second", "late"}

ModuleHead(marker) ==
    IF marker = "late"
    THEN <<ImportDeclaration(FALSE, "imp", NoNode, 0), Directive("use server", 25)>>
    ELSE Prologue(marker, 0)

\* the line feeds of a text: one statement per line, or all on one line
Layouts == {"lines", "oneLine"}

ScanLineFeeds(layout, n) ==
    IF layout = "oneLine" THEN {}
    ELSE {24, 44} \cup {ScanBase(k) + 79 : k \in 1..n}

DefinitionsFile(marker, ds, layout) ==
    [statements |-> ModuleHead(marker)
                    \o [k \in 1..Len(ds) |-> DefinitionStatement(ds[k], k)],
     lineFeeds |-> ScanLineFeeds(layout, Len(ds)),
     length |-> ScanBase(Len(ds)) + 80]

\* the kind of the j-th wrapper layer (1 is the innermost) of k layers
LayerKind(pattern, j, k) ==
    IF pattern = "parens" \/ j % 2 = 0 THEN "ParenthesizedExpression"
    ELSE IF j = k THEN "NonNullExpression"
    ELSE CASE (j \div 2) % 4 = 0 -> "NonNullExpression"
           [] (j \div 2) % 4 = 1 -> "AsExpression"
           [] (j \div 2) % 4 = 2 -> "TypeAssertionExpression"
           [] OTHER -> "SatisfiesExpression"

Wrap(kind, e) ==
    CASE kind = "ParenthesizedExpression" -> Parenthesized(e, e.pos - 1)
      [] kind = "NonNullExpression" -> NonNull(e)
      [] kind = "AsExpression" -> AsExpression(e)
      [] kind = "TypeAssertionExpression" -> TypeAssertion(e)
      [] OTHER -> Satisfies(e)

\* e wrapped in the layers j..k
RECURSIVE Wrapped(_, _, _, _)
Wrapped(e, pattern, j, k) ==
    IF j > k THEN e
    ELSE Wrapped(Wrap(LayerKind(pattern, j, k), e), pattern, j + 1, k)

\* the call sites a calls file is built from
CallSiteShapes ==
    [form : {"identifier", "property"}, pattern : {"parens", "mixed"},
     layers : 0..MaxLayers]
    \cup [form : {"element"}, pattern : {"parens"}, layers : {0, 1}]
    \cup [form : {"transition", "transitionBlock", "hook", "jsxCall",
                  "jsxProperty", "formAction", "argument"},
          pattern : {"parens"}, layers : {0}]

CallSiteStatement(c, k) ==
    LET o == ScanBase(k) IN
    CASE c.form = "identifier" ->
            \* ((imp))()
            ExpressionStatement(
                Call(Wrapped(Identifier("imp", o + 30), c.pattern, 1, c.layers),
                     <<>>))
      [] c.form = "property" ->
            \* ((ns.fn))()
            ExpressionStatement(
                Call(Wrapped(PropertyAccess(Identifier("ns", o + 30), "fn"),
                             c.pattern, 1, c.layers), <<>>))
      [] c.form = "element" ->
            \* obj['x']()
            ExpressionStatement(
                Call(Wrapped(ElementAccess(Identifier("obj", o + 30)),
                             c.pattern, 1, c.layers), <<>>))
      [] c.form = "transition" ->
            \* startTransition(() => imp())
            ExpressionStatement(
                Call(Identifier("startTransition", o),
                     <<ArrowFunction({}, Call(Identifier("imp", o + 22), <<>>),
                                     o + 16)>>))
      [] c.form = "transitionBlock" ->
            \* startTransition(() => { startTransition(() => imp()); ns.fn(); })
            ExpressionStatement(
                Call(Identifier("startTransition", o),
                     <<ArrowFunction({},
                         Block(<<ExpressionStatement(
                                   Call(Identifier("startTransition", o + 24),
                                        <<ArrowFunction({},
                                            Call(Identifier("imp", o + 46), <<>>),
                                            o + 40)>>)),
                                 ExpressionStatement(
                                   Call(PropertyAccess(Identifier("ns", o + 55),
                                                       "fn"), <<>>))>>,
                               o + 22, o + 64),
                         o + 16)>>))
      [] c.form = "hook" ->
            \* useActionState(imp)
            ExpressionStatement(
                Call(Identifier("useActionState", o), <<Identifier("imp", o + 15)>>))
      [] c.form = "jsxCall" ->
            \* action={imp()}
            JsxAttribute("action", Call(Identifier("imp", o + 8), <<>>), o)
      [] c.form = "jsxProperty" ->
            \* action={ns.fn()}
            JsxAttribute("action",
                         Call(PropertyAccess(Identifier("ns", o + 8), "fn"), <<>>),
                         o)
      [] c.form = "formAction" ->
            \* formAction={imp}
            JsxAttribute("formAction", Identifier("imp", o + 12), o)
      [] c.form = "argument" ->
            \* imp(glob())
            ExpressionStatement(
                Call(Identifier("imp", o),
                     <<Call(Identifier("glob", o + 4), <<>>)>>))

\* import imp from './x'; import * as ns from './a';
CallsHead ==
    << ImportDeclaration(FALSE, "imp", NoNode, 0),
       ImportDeclaration(FALSE, NoName, NamespaceImport("ns"), 25) >>

CallsFile(cs) ==
    [statements |-> CallsHead
                    \o [k \in 1..Len(cs) |-> CallSiteStatement(cs[k], k)],
     lineFeeds |-> ScanLineFeeds("lines", Len(cs)),
     length |-> ScanBase(Len(cs)) + 80]

\* sequences of 1..MaxScanStatements elements of S
SeqsUpTo(S) == UNION {[1..n -> S] : n \in 1..MaxScanStatements}

ScanFiles(layouts) ==
    {DefinitionsFile(m, ds, l) :
        m \in ModuleMarkers, ds \in SeqsUpTo(DefinitionShapes), l \in layouts}
    \cup {CallsFile(cs) : cs \in SeqsUpTo(CallSiteShapes)}

\* ------------------------------------------------------------------------
\* analyzer/compute.ts: computeHighlights, one pass
\* ------------------------------------------------------------------------
VARIABLES
    sf,             \* the parsed source text
    useBounds,      \* !!options
    maxConcurrent,  \* bounds.maxConcurrent ?? 6
    maxResolutions, \* bounds.maxResolutions ?? 30
    vr,             \* options.visibleRange
    spans,          \* `spans`, the result of scanServerActions
    bodyRanges,     \* the result list bodyRanges
    iconRanges,     \* the result list iconRanges
    localActionNames, \* the set `localActionNames`
    calls,          \* `calls`, the result of scanCallSiteCandidates
    imported,       \* `imported`, the result of collectImportedNames
    locals,         \* `locals`, the result of collectLocalCallableNames
    nsImports,      \* `nsImports`, the result of collectNamespaceImportNames
    aborted,        \* state of the AbortSignal the updater passes as options.signal
    orderedCalls,   \* the candidates in processing order
    pc,             \* where the body of computeHighlights is suspended
    idx,            \* index in orderedCalls of the candidate being processed
    callRanges,     \* the result list (the set `seen` is its range)
    resolutions,    \* counter `resolutions`
    inFlight,       \* counter `inFlight`
    queue,          \* the list `queue` of task promises (by candidate index)
    stage,          \* per candidate: how far its resolution task has got
    oracle,         \* per candidate: state of the promise resolveFn returned
    raceBy,         \* per candidate: what settled Promise.race in runWithTimeout
    budgetExpired,  \* Date.now() - startedAt > perPassBudgetMs
    admitted,       \* history: candidate indices in the order resolveFn was called
    drainIdx,       \* position of the array iterator of the drain loop
    awaited,        \* the promise the drain loop is awaiting (0 if none)
    raceWinner,     \* the first promise to settle Promise.race(queue), 0 if none yet
    firstResult,    \* callRanges of an earlier pass over the same text, if any
    \* -- extension/controller.ts, extension/updater.ts
    activeEditor,   \* vscode.window.activeTextEditor (0: undefined)
    decorations,    \* `decorations`, the current bundle of decoration types
    disposed,       \* the bundles disposeDecorations was called on
    timer,          \* `timer`, the handle setTimeout returned last (0: undefined)
    timers,         \* per handle: pending, due, cleared or fired
    seq,            \* `seq`, the number of updateEditor calls
    currentAbort,   \* `currentAbort`, by the run that created it (0: undefined)
    abortedControllers, \* the controllers abort() was called on
    runs,           \* per updateEditor call: what it captured and how far it got
    decorationCalls, \* history: the calls of editor.setDecorations
    \* -- extension/exclude.ts
    excludeSetting, \* the configuration value files.exclude
    testedFileName, \* the argument fileName of isExcludedFileName
    regs,           \* the patterns compilePatterns returned
    excludedAnswer, \* what isExcludedFileName returned
    \* -- extension/resolver.ts
    request,        \* the arguments (uri, offset) of the resolve function
    visited,        \* the set `visited`
    resolveQueue,   \* the list `queue` of the resolve function
    hops,           \* the counter `hops`
    resolved,       \* what the resolve function returned, if it has
    dequeued,       \* history: the entries taken off the worklist
    located         \* history: the locations the latest lookups returned (`all`)

\* the state of the extension host outside computeHighlights
extension ==
    <<activeEditor, decorations, disposed, timer, timers, seq, currentAbort,
      abortedControllers, runs, decorationCalls>>

exclusion == <<excludeSetting, testedFileName, regs, excludedAnswer>>

resolver == <<request, visited, resolveQueue, hops, resolved, dequeued, located>>

outside == <<extension, exclusion, resolver>>

\* nothing registered, no exclusion test and no resolve call under way
OutsideIdle ==
    /\ activeEditor = 0
    /\ decorations = 0
    /\ disposed = {}
    /\ timer = 0
    /\ timers = <<>>
    /\ seq = 0
    /\ currentAbort = 0
    /\ abortedControllers = {}
    /\ runs = <<>>
    /\ decorationCalls = <<>>
    /\ excludeSetting = <<>>
    /\ testedFileName = <<>>
    /\ regs = <<>>
    /\ excludedAnswer = "none"
    /\ request = <<>>
    /\ visited = {}
    /\ resolveQueue = <<>>
    /\ hops = 0
    /\ resolved = "none"
    /\ dequeued = <<>>
    /\ located = {}

\* what is fixed when the candidate loop begins
pass ==
    <<sf, useBounds, maxConcurrent, maxResolutions, vr, spans, bodyRanges,
      iconRanges, localActionNames, calls, imported, locals, nsImports,
      orderedCalls, firstResult, outside>>

vars ==
    <<pass, aborted,
      pc, idx, callRanges, resolutions, inFlight, queue, stage, oracle, raceBy,
      budgetExpired, admitted, drainIdx, awaited, raceWinner>>

\* no earlier pass
NoResult ==
    [known |-> FALSE, bodyRanges |-> <<>>, iconRanges |-> <<>>,
     callRanges |-> <<>>]

\* defaults of the bounds
DefaultMaxConcurrent == 6
DefaultMaxResolutions == 30

N == Len(orderedCalls)

OffsetRange(start, end) == [start |-> start, end |-> end]

\* add: append unless a range with the same key is present
add(ranges, r) ==
    IF \E i \in 1..Len(ranges) : ranges[i] = r THEN ranges ELSE Append(ranges, r)

\* greatest / least element of a non-empty set of offsets
Greatest(S) == CHOOSE x \in S : \A y \in S : y <= x
Least(S) == CHOOSE x \in S : \A y \in S : x <= y

\* offset of the first character of the line that holds offset `at`
lineStartOffset(text, at) ==
    LET before == {b \in text.lineFeeds : b < at} IN
    IF before = {} THEN 0 ELSE Greatest(before) + 1

\* a lineEndOffset that returns what indexOf returns, also when no line feed
\* follows
lineEndByIndexOf(text, at) ==
    LET after == {b \in text.lineFeeds : b >= at} IN
    IF after = {} THEN -1 ELSE Least(after)

\* offset of the line feed that ends the line of `at` (or the text length)
lineEndOffset(text, at) ==
    LET after == {b \in text.lineFeeds : b >= at} IN
    IF after = {} THEN text.length ELSE Least(after)

\* the offsets at which the text has the opening brace of a block
RECURSIVE blockStarts(_)
RECURSIVE blockStartsAll(_)
blockStarts(n) ==
    (IF n.kind = "Block" THEN {n.pos} ELSE {}) \cup blockStartsAll(Children(n))

blockStartsAll(ns) ==
    IF ns = <<>> THEN {}
    ELSE blockStarts(Head(ns)) \cup blockStartsAll(Tail(ns))

\* text[s.bodyStart] === '{'
startsWithBrace(text, s) ==
    s.bodyStart \in blockStartsAll(text.statements)

\* body ranges computed only for the definitions that overlap the visible
\* range
bodyRangesInView(text, ss) ==
    SelectSeq([k \in 1..Len(ss) |->
                   OffsetRange(lineStartOffset(text, ss[k].bodyStart),
                               lineEndOffset(text, ss[k].bodyEnd))],
              LAMBDA r : vr = NoRange \/ (r.start <= vr.end /\ r.end >= vr.start))

\* bodyRanges as built from the spans: one entry pushed per span
RECURSIVE bodyRangesOf(_, _)
bodyRangesOf(text, ss) ==
    IF ss = <<>> THEN <<>>
    ELSE <<OffsetRange(lineStartOffset(text, Head(ss).bodyStart),
                       lineEndOffset(text, Head(ss).bodyEnd))>>
         \o bodyRangesOf(text, Tail(ss))

\* iconRanges as built from the spans: one entry pushed per block body
RECURSIVE iconRangesOf(_, _)
iconRangesOf(text, ss) ==
    IF ss = <<>> THEN <<>>
    ELSE (IF startsWithBrace(text, Head(ss))
          THEN <<OffsetRange(lineEndOffset(text, Head(ss).bodyStart),
                             lineEndOffset(text, Head(ss).bodyStart))>>
          ELSE <<>>)
         \o iconRangesOf(text, Tail(ss))

\* localActionNames as built from the spans of scanServerActions
actionNamesOf(ss) ==
    {ss[i].name : i \in {j \in 1..Len(ss) :
                              /\ ss[j].name # NoName
                              /\ ss[j].name # "(inline)"
                              /\ ss[j].name # "default"}}

overlapsVisible(c, range) == c.start <= range.end /\ c.end >= range.start

\* a pass that ignores the visible range
extractionOrder(cs, range) == cs

\* visible range first (if provided): [...inView, ...outView]
orderCalls(cs, range) ==
    IF range = NoRange THEN cs
    ELSE SelectSeq(cs, LAMBDA c : overlapsVisible(c, range))
         \o SelectSeq(cs, LAMBDA c : ~overlapsVisible(c, range))

isAttribute(c) == c.kind \in {"jsxAction", "jsxFormAction"}

isLocalAction(c) ==
    c.calleeName # NoName /\ c.calleeName \in localActionNames

\* a pass without the pre-filter: every named candidate goes to the oracle
neverFilteredOut(c) == FALSE

\* the pre-filter: neither imported nor local, and not namespace-qualified
isFilteredOut(c) ==
    /\ c.calleeName # NoName
    /\ c.calleeName \notin imported
    /\ c.calleeName \notin locals
    /\ \/ c.qualifierName = NoName
       \/ c.qualifierName \notin nsImports

\* the probe offset handed to resolveFn
inside(c) ==
    IF c.calleeName # NoName
    THEN c.start + (IF NameLen(c.calleeName) \div 2 > 1
                    THEN NameLen(c.calleeName) \div 2 ELSE 1)
    ELSE c.start

site(c) == OffsetRange(c.start, c.end)

\* a budget test that is made whether or not options were passed
budgetTestedAlways ==
    resolutions >= maxResolutions \/ budgetExpired

\* a budget test that reads the clock only: the counter of resolutions is
\* not compared with maxResolutions
budgetByClockOnly ==
    useBounds /\ budgetExpired

\* the budget test made before and after scheduling
budgetExhausted ==
    useBounds /\ (resolutions >= maxResolutions \/ budgetExpired)

\* The synchronous part of the candidate loop from index i: attribute and
\* local-action candidates are added, filtered ones skipped, up to the first
\* candidate that needs the oracle (or past the end).
RECURSIVE skipTo(_, _)
skipTo(i, ranges) ==
    IF i > N THEN [i |-> i, ranges |-> ranges]
    ELSE LET c == orderedCalls[i] IN
         IF isAttribute(c) \/ isLocalAction(c)
         THEN skipTo(i + 1, add(ranges, site(c)))
         ELSE IF isFilteredOut(c) THEN skipTo(i + 1, ranges)
         ELSE [i |-> i, ranges |-> ranges]

\* p rejected: the oracle threw and won the race
rejected(t) == raceBy[t] = "oracle" /\ oracle[t] = "throw"

\* first element of the queue whose promise is already settled, 0 if none
firstSettled(q) ==
    IF \E k \in 1..Len(q) : stage[q[k]] = "settled"
    THEN q[CHOOSE k \in 1..Len(q) :
               /\ stage[q[k]] = "settled"
               /\ \A j \in 1..(k - 1) : stage[q[j]] # "settled"]
    ELSE 0

\* The drain loop from iterator position k: returns when the iterator is
\* past the end of the (live) queue, else awaits queue[k].
drainFrom(k, ranges) ==
    /\ callRanges' = ranges
    /\ drainIdx' = k
    /\ pc' = IF k > Len(queue) THEN "done" ELSE "drain"
    /\ awaited' = IF k > Len(queue) THEN 0 ELSE queue[k]
    /\ UNCHANGED <<idx, inFlight, queue, stage, oracle, admitted, raceWinner>>

\* the call resolveFn(documentUri, inside) for candidate i
OracleCall(i) == [cand |-> i, offset |-> inside(orderedCalls[i])]

\* schedule(task) for candidate i with the pool free: the task starts, calls
\* resolveFn and suspends in runWithTimeout; p is pushed on the queue
admit(i, ranges) ==
    /\ callRanges' = ranges
    /\ idx' = i
    /\ inFlight' = inFlight + 1
    /\ queue' = Append(queue, i)
    /\ stage' = [stage EXCEPT ![i] = "racing"]
    /\ oracle' = [oracle EXCEPT ![i] = "pending"]
    /\ admitted' = Append(admitted, OracleCall(i))
    /\ pc' = "awaitSchedule"
    /\ raceWinner' = 0
    /\ UNCHANGED <<drainIdx, awaited>>

\* schedule(task) without the throttle `while (inFlight >= maxConcurrent)`:
\* the task is started although the pool is full
admitIntoFullPool(i, ranges) == admit(i, ranges)

\* schedule(task) with the pool full: await Promise.race(queue)
waitForSlot(i, ranges) ==
    /\ callRanges' = ranges
    /\ idx' = i
    /\ pc' = "waitSlot"
    /\ raceWinner' = firstSettled(queue)
    /\ UNCHANGED <<inFlight, queue, stage, oracle, admitted, drainIdx, awaited>>

\* schedule(task) without bounds that starts the task and returns without
\* awaiting it
startWithoutAwait(i, ranges) == admit(i, ranges)

\* schedule(task) without bounds: await task() inline
runInline(i, ranges) ==
    /\ callRanges' = ranges
    /\ idx' = i
    /\ stage' = [stage EXCEPT ![i] = "racing"]
    /\ oracle' = [oracle EXCEPT ![i] = "pending"]
    /\ admitted' = Append(admitted, OracleCall(i))
    /\ pc' = "awaitTask"
    /\ UNCHANGED <<inFlight, queue, drainIdx, awaited, raceWinner>>

\* the candidate loop from index i up to its next suspension
loopFrom(i, ranges) ==
    LET next == skipTo(i, ranges) IN
    IF next.i > N \/ budgetExhausted THEN drainFrom(1, next.ranges)
    ELSE IF ~useBounds THEN runInline(next.i, next.ranges)
    ELSE IF inFlight >= maxConcurrent THEN waitForSlot(next.i, next.ranges)
    ELSE admit(next.i, next.ranges)

\* what a step of the body of computeHighlights leaves alone
MainFrame ==
    UNCHANGED <<pass, aborted, resolutions, raceBy, budgetExpired>>

\* ---- steps of the body of computeHighlights -----------------------------
\* the candidate loop begins
Start ==
    /\ pc = "start"
    /\ loopFrom(1, callRanges)
    /\ MainFrame

\* `await schedule(...)` resumes: the budget test after scheduling, then the
\* next iterations
ResumeAfterSchedule ==
    /\ pc \in {"awaitSchedule", "awaitTask"}
    /\ pc = "awaitTask" => stage[idx] = "finished"
    /\ IF pc = "awaitTask" /\ rejected(idx)
       THEN /\ pc' = "failed"
            /\ UNCHANGED <<idx, callRanges, inFlight, queue, stage, oracle,
                           admitted, drainIdx, awaited, raceWinner>>
       ELSE IF budgetExhausted THEN drainFrom(1, callRanges)
       ELSE loopFrom(idx + 1, callRanges)
    /\ MainFrame

\* `await Promise.race(queue)` resumes inside schedule
ResumeAfterSlot ==
    /\ pc = "waitSlot"
    /\ raceWinner # 0
    /\ stage[raceWinner] = "removed"
    /\ IF rejected(raceWinner)
       THEN /\ pc' = "failed"
            /\ UNCHANGED <<idx, callRanges, inFlight, queue, stage, oracle,
                           admitted, drainIdx, awaited, raceWinner>>
       ELSE IF inFlight >= maxConcurrent THEN waitForSlot(idx, callRanges)
       ELSE admit(idx, callRanges)
    /\ MainFrame

\* `await p` of the drain loop resumes: the array iterator moves on over the
\* live queue
ResumeDrain ==
    /\ pc = "drain"
    /\ stage[awaited] = "removed"
    /\ IF rejected(awaited)
       THEN /\ pc' = "failed"
            /\ UNCHANGED <<idx, callRanges, inFlight, queue, stage, oracle,
                           admitted, drainIdx, awaited, raceWinner>>
       ELSE drainFrom(drainIdx + 1, callRanges)
    /\ MainFrame

\* ---- steps of a resolution task -----------------------------------------
\* position of candidate t in the order of admission
admissionRank(t) == CHOOSE k \in 1..Len(admitted) : admitted[k].cand = t

\* what every step of a resolution task leaves alone
TaskFrame ==
    UNCHANGED <<pass, aborted, pc, idx, budgetExpired, admitted, drainIdx,
                awaited>>

\* `await schedule(...)` of a task that was started without waiting resumes
\* one microtask turn later; the continuation of resolveCallCandidate lies
\* further turns behind the settling of resolveFn's promise, and timers do
\* not fire between microtask turns.
justAdmitted(t) == pc = "awaitSchedule" /\ idx = t

\* A resolution in which the answer of resolveFn is used whenever it arrives,
\* also after the timer has won the race
OracleSettlesAfterTimeout(t, v) ==
    /\ oracle[t] = "pending"
    /\ ~justAdmitted(t)
    /\ oracle' = [oracle EXCEPT ![t] = v]
    /\ IF stage[t] = "racing"
       THEN /\ raceBy' = [raceBy EXCEPT ![t] = "oracle"]
            /\ stage' = [stage EXCEPT ![t] = "finished"]
            /\ callRanges' = IF v = "true"
                             THEN add(callRanges, site(orderedCalls[t]))
                             ELSE callRanges
            /\ resolutions' = IF v = "throw" THEN resolutions ELSE resolutions + 1
       ELSE /\ v = "true"
            /\ callRanges' = add(callRanges, site(orderedCalls[t]))
            /\ UNCHANGED <<raceBy, stage, resolutions>>
    /\ UNCHANGED <<inFlight, queue, raceWinner>>
    /\ TaskFrame

\* a resolveCallCandidate without the test `if (ok)`: the span is added
\* whatever the race yields
OracleSettlesAndAdds(t, v) ==
    /\ oracle[t] = "pending"
    /\ ~justAdmitted(t)
    /\ oracle' = [oracle EXCEPT ![t] = v]
    /\ IF stage[t] = "racing"
       THEN /\ raceBy' = [raceBy EXCEPT ![t] = "oracle"]
            /\ stage' = [stage EXCEPT ![t] = "finished"]
            /\ callRanges' = IF v = "throw" THEN callRanges
                             ELSE add(callRanges, site(orderedCalls[t]))
            /\ resolutions' = IF v = "throw" THEN resolutions ELSE resolutions + 1
       ELSE /\ v = "true"
            /\ UNCHANGED <<raceBy, stage, callRanges, resolutions>>
    /\ UNCHANGED <<inFlight, queue, raceWinner>>
    /\ TaskFrame

\* The promise returned by resolveFn settles with v.  If runWithTimeout is
\* still waiting for it, resolveCallCandidate resumes with that outcome:
\* `if (ok) add(site); resolutions++`, or the rejection propagates.  After the
\* timer has won, the late answer is dropped.
OracleSettles(t, v) ==
    /\ oracle[t] = "pending"
    /\ ~justAdmitted(t)
    /\ oracle' = [oracle EXCEPT ![t] = v]
    /\ IF stage[t] = "racing"
       THEN /\ raceBy' = [raceBy EXCEPT ![t] = "oracle"]
            /\ stage' = [stage EXCEPT ![t] = "finished"]
            /\ callRanges' = IF v = "true"
                             THEN add(callRanges, site(orderedCalls[t]))
                             ELSE callRanges
            /\ resolutions' = IF v = "throw" THEN resolutions ELSE resolutions + 1
       ELSE /\ v = "true"
            /\ UNCHANGED <<raceBy, stage, callRanges, resolutions>>
    /\ UNCHANGED <<inFlight, queue, raceWinner>>
    /\ TaskFrame

\* a runWithTimeout that returns the promise of resolveFn itself also with
\* controls: no timer is set, so none fires
NoTimerIsSet(t) ==
    /\ FALSE
    /\ UNCHANGED vars

\* The timer of runWithTimeout fires before resolveFn settles: the race
\* yields false and resolveCallCandidate resumes with it.  Timers of equal
\* delay fire in the order they were set.
TimerFires(t) ==
    /\ useBounds
    /\ pc # "awaitSchedule"
    /\ stage[t] = "racing"
    /\ \A k \in 1..(admissionRank(t) - 1) : stage[admitted[k].cand] # "racing"
    /\ raceBy' = [raceBy EXCEPT ![t] = "timer"]
    /\ stage' = [stage EXCEPT ![t] = "finished"]
    /\ resolutions' = resolutions + 1
    /\ UNCHANGED <<callRanges, oracle, inFlight, queue, raceWinner>>
    /\ TaskFrame

\* a wrapper that frees the slot after `await task()` instead of in a finally
\* block: a task that threw keeps its slot
WrapperReleasesOnSuccess(t) ==
    /\ useBounds
    /\ stage[t] = "finished"
    /\ stage' = [stage EXCEPT ![t] = "settled"]
    /\ inFlight' = IF rejected(t) THEN inFlight ELSE inFlight - 1
    /\ raceWinner' = IF pc = "waitSlot" /\ raceWinner = 0 THEN t ELSE raceWinner
    /\ UNCHANGED <<callRanges, resolutions, queue, oracle, raceBy>>
    /\ TaskFrame

\* the wrapper's finally block: the slot is freed and p settles
WrapperFinally(t) ==
    /\ useBounds
    /\ stage[t] = "finished"
    /\ stage' = [stage EXCEPT ![t] = "settled"]
    /\ inFlight' = inFlight - 1
    /\ raceWinner' = IF pc = "waitSlot" /\ raceWinner = 0 THEN t ELSE raceWinner
    /\ UNCHANGED <<callRanges, resolutions, queue, oracle, raceBy>>
    /\ TaskFrame

\* queue.splice(idx, 1)
removeFrom(q, t) == SelectSeq(q, LAMBDA x : x # t)

\* the p.finally callback: p removes itself from the queue
FinallyCallback(t) ==
    /\ stage[t] = "settled"
    /\ stage' = [stage EXCEPT ![t] = "removed"]
    /\ queue' = removeFrom(queue, t)
    /\ UNCHANGED <<callRanges, resolutions, inFlight, oracle, raceBy, raceWinner>>
    /\ TaskFrame

\* ---- the environment -----------------------------------------------------
\* The clock passes startedAt + perPassBudgetMs.  This happens while the
\* candidate loop is suspended for longer than a microtask turn: in
\* Promise.race(queue) with controls, in `await task()` without.
BudgetExpires ==
    /\ ~budgetExpired
    /\ \/ pc = "waitSlot"
       \/ ~useBounds /\ pc = "awaitTask"
    /\ budgetExpired' = TRUE
    /\ UNCHANGED <<pass, aborted, pc, idx, callRanges, resolutions, inFlight,
                   queue, stage, oracle, raceBy, admitted, drainIdx, awaited,
                   raceWinner>>

\* The options of the updater's call, the only ones that carry a signal:
\* { visibleRange, bounds: { 6, 2000, 1500, 30 }, signal } or { signal }
signalGiven ==
    /\ useBounds
    /\ maxConcurrent = DefaultMaxConcurrent
    /\ maxResolutions = DefaultMaxResolutions

\* the caller aborts the controller whose signal it passed to this pass
\* (possibly before the candidate loop has begun)
Abort ==
    /\ signalGiven
    /\ ~aborted
    /\ pc \notin {"done", "failed"}
    /\ aborted' = TRUE
    /\ UNCHANGED <<pass, pc, idx, callRanges, resolutions, inFlight,
                   queue, stage, oracle, raceBy, budgetExpired, admitted,
                   drainIdx, awaited, raceWinner>>

\* ---- the specification ----------------------------------------------------
BoundsChoices ==
    {<<DefaultMaxConcurrent, DefaultMaxResolutions>>}
    \cup ((1..MaxConcurrentBound) \X (1..MaxResolutionsBound))

Init ==
    /\ \E body \in Bodies : sf = SourceFile(body)
    /\ useBounds \in BOOLEAN
    /\ \E b \in BoundsChoices :
          /\ maxConcurrent = b[1]
          /\ maxResolutions = b[2]
          /\ ~useBounds => b = <<DefaultMaxConcurrent, DefaultMaxResolutions>>
    /\ vr \in VisibleRanges
    /\ vr # NoRange => useBounds
    /\ aborted = FALSE
    /\ spans = scanServerActions(sf)
    /\ bodyRanges = bodyRangesOf(sf, spans)
    /\ iconRanges = iconRangesOf(sf, spans)
    /\ localActionNames = actionNamesOf(spans)
    /\ calls = scanCallSiteCandidates(sf)
    /\ imported = collectImportedNames(sf)
    /\ locals = collectLocalCallableNames(sf)
    /\ nsImports = collectNamespaceImportNames(sf)
    /\ orderedCalls = orderCalls(calls, vr)
    /\ pc = "start"
    /\ idx = 0
    /\ callRanges = <<>>
    /\ resolutions = 0
    /\ inFlight = 0
    /\ queue = <<>>
    /\ stage = [t \in 1..Len(orderedCalls) |-> "idle"]
    /\ oracle = [t \in 1..Len(orderedCalls) |-> "notCalled"]
    /\ raceBy = [t \in 1..Len(orderedCalls) |-> "none"]
    /\ budgetExpired = FALSE
    /\ admitted = <<>>
    /\ drainIdx = 0
    /\ awaited = 0
    /\ raceWinner = 0
    /\ firstResult = NoResult
    /\ OutsideIdle

OracleAnswers == {"true", "false", "throw"}


Next ==
    \/ Start
    \/ ResumeAfterSchedule
    \/ ResumeAfterSlot
    \/ ResumeDrain
    \/ \E t \in 1..N : \E v \in OracleAnswers : OracleSettles(t, v)
    \/ \E t \in 1..N : TimerFires(t)
    \/ \E t \in 1..N : WrapperFinally(t)
    \/ \E t \in 1..N : FinallyCallback(t)
    \/ BudgetExpires
    \/ Abort

Spec == Init /\ [][Next]_vars

\* The event loop runs every ready continuation and every due timer: the
\* steps of the pass and of its tasks that do not depend on the oracle are
\* taken when they stay possible.  Nothing obliges the oracle to answer.
PassProgress ==
    \/ Start
    \/ ResumeAfterSchedule
    \/ ResumeAfterSlot
    \/ ResumeDrain
    \/ \E t \in 1..N : TimerFires(t)
    \/ \E t \in 1..N : WrapperFinally(t)
    \/ \E t \in 1..N : FinallyCallback(t)

\* a pass run with controls (bounds only: the order of the candidates plays
\* no part in what follows)
InitWithControls == Init /\ useBounds /\ vr = NoRange

FairSpec == InitWithControls /\ [][Next]_vars /\ WF_vars(PassProgress)

\* ---- a second pass over the same text -----------------------------------
\* every call of resolveFn made in this pass was answered true in time, all
\* resolution tasks have run to their end, and the pass was neither
\* cancelled nor cut short by the clock
answeredTrueInTime ==
    /\ ~aborted
    /\ ~budgetExpired
    /\ \A t \in 1..N :
           \/ stage[t] = "idle"
           \/ /\ stage[t] \in {"finished", "removed"}
              /\ stage[t] = "finished" => ~useBounds
              /\ raceBy[t] = "oracle"
              /\ oracle[t] = "true"

\* computeHighlights is called again with the same text and options after a
\* pass in which resolveFn answered true to every call: the result of the
\* first pass is kept for comparison and everything is computed anew
RunAgain ==
    /\ pc = "done"
    /\ ~firstResult.known
    /\ answeredTrueInTime
    /\ firstResult' = [known |-> TRUE, bodyRanges |-> bodyRanges,
                       iconRanges |-> iconRanges, callRanges |-> callRanges]
    /\ spans' = scanServerActions(sf)
    /\ bodyRanges' = bodyRangesOf(sf, spans')
    /\ iconRanges' = iconRangesOf(sf, spans')
    /\ localActionNames' = actionNamesOf(spans')
    /\ calls' = scanCallSiteCandidates(sf)
    /\ imported' = collectImportedNames(sf)
    /\ locals' = collectLocalCallableNames(sf)
    /\ nsImports' = collectNamespaceImportNames(sf)
    /\ orderedCalls' = orderCalls(calls', vr)
    /\ pc' = "start"
    /\ idx' = 0
    /\ callRanges' = <<>>
    /\ resolutions' = 0
    /\ inFlight' = 0
    /\ queue' = <<>>
    /\ stage' = [t \in 1..Len(orderedCalls') |-> "idle"]
    /\ oracle' = [t \in 1..Len(orderedCalls') |-> "notCalled"]
    /\ raceBy' = [t \in 1..Len(orderedCalls') |-> "none"]
    /\ budgetExpired' = FALSE
    /\ admitted' = <<>>
    /\ drainIdx' = 0
    /\ awaited' = 0
    /\ raceWinner' = 0
    /\ UNCHANGED <<sf, useBounds, maxConcurrent, maxResolutions, vr, aborted,
                   outside>>

\* the files of the two-pass runs have at most this many call-site statements
MaxCallsTwice == 2

InitTwice ==
    /\ Init
    /\ Len(sf.statements) <= Len(Header) + MaxCallsTwice

NextTwice == Next \/ RunAgain

SpecTwice == InitTwice /\ [][NextTwice]_vars

\* ---- a second pass over the same text with other controls ----------------
\* the options a caller can pass: none, or controls with or without a
\* visible range
ControlsChoices ==
    {c \in [useBounds : BOOLEAN, bounds : BoundsChoices, visibleRange : VisibleRanges] :
        ~c.useBounds =>
            /\ c.bounds = <<DefaultMaxConcurrent, DefaultMaxResolutions>>
            /\ c.visibleRange = NoRange}

\* computeHighlights is called again on the same text with the options c,
\* after a pass that returned whatever the oracle did; the result of the
\* first pass is kept for comparison and everything is computed anew
RunAgainWith(c) ==
    /\ pc = "done"
    /\ ~firstResult.known
    /\ UNCHANGED <<sf, outside>>
    /\ firstResult' = [known |-> TRUE, bodyRanges |-> bodyRanges,
                       iconRanges |-> iconRanges, callRanges |-> callRanges]
    /\ useBounds' = c.useBounds
    /\ maxConcurrent' = c.bounds[1]
    /\ maxResolutions' = c.bounds[2]
    /\ vr' = c.visibleRange
    /\ aborted' = FALSE
    /\ spans' = scanServerActions(sf)
    \* (the lists are built in the new call, under its options)
    /\ bodyRanges' = bodyRangesOf(sf, spans)'
    /\ iconRanges' = iconRangesOf(sf, spans')
    /\ localActionNames' = actionNamesOf(spans')
    /\ calls' = scanCallSiteCandidates(sf)
    /\ imported' = collectImportedNames(sf)
    /\ locals' = collectLocalCallableNames(sf)
    /\ nsImports' = collectNamespaceImportNames(sf)
    /\ orderedCalls' = orderCalls(calls', vr')
    /\ pc' = "start"
    /\ idx' = 0
    /\ callRanges' = <<>>
    /\ resolutions' = 0
    /\ inFlight' = 0
    /\ queue' = <<>>
    /\ stage' = [t \in 1..Len(orderedCalls') |-> "idle"]
    /\ oracle' = [t \in 1..Len(orderedCalls') |-> "notCalled"]
    /\ raceBy' = [t \in 1..Len(orderedCalls') |-> "none"]
    /\ budgetExpired' = FALSE
    /\ admitted' = <<>>
    /\ drainIdx' = 0
    /\ awaited' = 0
    /\ raceWinner' = 0

NextAgain == Next \/ \E c \in ControlsChoices : RunAgainWith(c)

SpecAgain == InitTwice /\ [][NextAgain]_vars

\* ---- the extraction functions applied to a text --------------------------
\* the head of computeHighlights, before the candidate loop
InitScan ==
    /\ sf \in ScanFiles(Layouts)
    /\ useBounds = FALSE
    /\ maxConcurrent = DefaultMaxConcurrent
    /\ maxResolutions = DefaultMaxResolutions
    /\ vr = NoRange
    /\ spans = <<>>
    /\ bodyRanges = <<>>
    /\ iconRanges = <<>>
    /\ localActionNames = {}
    /\ calls = <<>>
    /\ imported = {}
    /\ locals = {}
    /\ nsImports = {}
    /\ orderedCalls = <<>>
    /\ aborted = FALSE
    /\ pc = "parsed"
    /\ idx = 0
    /\ callRanges = <<>>
    /\ resolutions = 0
    /\ inFlight = 0
    /\ queue = <<>>
    /\ stage = <<>>
    /\ oracle = <<>>
    /\ raceBy = <<>>
    /\ budgetExpired = FALSE
    /\ admitted = <<>>
    /\ drainIdx = 0
    /\ awaited = 0
    /\ raceWinner = 0
    /\ firstResult = NoResult
    /\ OutsideIdle

\* scanServerActions and the local bookkeeping built from its spans
ScanDefinitions ==
    /\ pc = "parsed"
    /\ spans' = scanServerActions(sf)
    /\ bodyRanges' = bodyRangesOf(sf, spans')
    /\ iconRanges' = iconRangesOf(sf, spans')
    /\ localActionNames' = actionNamesOf(spans')
    /\ pc' = "definitions"
    /\ UNCHANGED <<sf, useBounds, maxConcurrent, maxResolutions, vr, calls,
                   imported, locals, nsImports, orderedCalls, firstResult,
                   outside,
                   aborted, idx, callRanges, resolutions, inFlight, queue,
                   stage, oracle, raceBy, budgetExpired, admitted, drainIdx,
                   awaited, raceWinner>>

\* scanCallSiteCandidates, the name collectors and the candidate order
ScanCalls ==
    /\ pc = "definitions"
    /\ calls' = scanCallSiteCandidates(sf)
    /\ imported' = collectImportedNames(sf)
    /\ locals' = collectLocalCallableNames(sf)
    /\ nsImports' = collectNamespaceImportNames(sf)
    /\ orderedCalls' = orderCalls(calls', vr)
    /\ pc' = "scanned"
    /\ UNCHANGED <<sf, useBounds, maxConcurrent, maxResolutions, vr, spans,
                   bodyRanges, iconRanges, localActionNames, firstResult,
                   outside,
                   aborted, idx, callRanges, resolutions, inFlight, queue,
                   stage, oracle, raceBy, budgetExpired, admitted, drainIdx,
                   awaited, raceWinner>>

NextScan == ScanDefinitions \/ ScanCalls

SpecScan == InitScan /\ [][NextScan]_vars

\* ---- a pass over files with type-only and value imports -------------------
\* the ways an import statement binds a local name
ImportForms ==
    {"default", "typeDefault", "named", "typeNamed", "typeSpecifier",
     "namespace", "typeNamespace"}

ImportSpecifier(typeOnly, n) == [isTypeOnly |-> typeOnly, name |-> n]

\* import n from | import type n from | import { n } from |
\* import type { n } from | import { type n } from | import * as n from |
\* import type * as n from
ImportStatement(form, n, p) ==
    CASE form = "default" -> ImportDeclaration(FALSE, n, NoNode, p)
      [] form = "typeDefault" -> ImportDeclaration(TRUE, n, NoNode, p)
      [] form = "named" ->
            ImportDeclaration(FALSE, NoName,
                              NamedImports(<<ImportSpecifier(FALSE, n)>>), p)
      [] form = "typeNamed" ->
            ImportDeclaration(TRUE, NoName,
                              NamedImports(<<ImportSpecifier(FALSE, n)>>), p)
      [] form = "typeSpecifier" ->
            ImportDeclaration(FALSE, NoName,
                              NamedImports(<<ImportSpecifier(TRUE, n)>>), p)
      [] form = "namespace" ->
            ImportDeclaration(FALSE, NoName, NamespaceImport(n), p)
      [] form = "typeNamespace" ->
            ImportDeclaration(TRUE, NoName, NamespaceImport(n), p)

ImportedLocalNames == {"imp", "ns"}

\* the calls of the body: imp(), ns(), ns.fn(), imp.fn()
ImportCallShapes == {"imp()", "ns()", "ns.fn()", "imp.fn()"}

ImportCallStatement(name, o) ==
    CASE name = "imp()" -> ExpressionStatement(Call(Identifier("imp", o), <<>>))
      [] name = "ns()" -> ExpressionStatement(Call(Identifier("ns", o), <<>>))
      [] name = "ns.fn()" ->
            ExpressionStatement(Call(PropertyAccess(Identifier("ns", o), "fn"), <<>>))
      [] name = "imp.fn()" ->
            ExpressionStatement(Call(PropertyAccess(Identifier("imp", o), "fn"), <<>>))

\* function imp() {}
LocalDeclaration ==
    FunctionDeclaration({}, Identifier("imp", 69), Block(<<>>, 75, 77), 60)

\* two import statements, an optional local declaration of imp, the calls
ImportsFile(f1, n1, f2, n2, local, body) ==
    [statements |->
        <<ImportStatement(f1, n1, 0), ImportStatement(f2, n2, 25)>>
        \o (IF local THEN <<LocalDeclaration>> ELSE <<>>)
        \o [k \in 1..Len(body) |-> ImportCallStatement(body[k], Base(k))],
     lineFeeds |-> {24, 49, 104} \cup {Base(k) + 19 : k \in 1..Len(body)},
     length |-> Base(Len(body)) + 20]

MaxImportCalls == 2

ImportBodies ==
    {b \in UNION {[1..n -> ImportCallShapes] : n \in 1..MaxImportCalls} :
        \A i, j \in DOMAIN b : i # j => b[i] # b[j]}

ImportFiles ==
    {ImportsFile(f1, "imp", f2, n2, local, body) :
        f1 \in ImportForms,
        f2 \in ImportForms, n2 \in ImportedLocalNames,
        local \in BOOLEAN, body \in ImportBodies}

\* computeHighlights called without bounds, with the updater's bounds, or
\* with one resolution at a time
InitImports ==
    /\ sf \in ImportFiles
    /\ useBounds \in BOOLEAN
    /\ maxConcurrent \in {1, DefaultMaxConcurrent}
    /\ ~useBounds => maxConcurrent = DefaultMaxConcurrent
    /\ maxResolutions = DefaultMaxResolutions
    /\ vr = NoRange
    /\ aborted = FALSE
    /\ spans = scanServerActions(sf)
    /\ bodyRanges = bodyRangesOf(sf, spans)
    /\ iconRanges = iconRangesOf(sf, spans)
    /\ localActionNames = actionNamesOf(spans)
    /\ calls = scanCallSiteCandidates(sf)
    /\ imported = collectImportedNames(sf)
    /\ locals = collectLocalCallableNames(sf)
    /\ nsImports = collectNamespaceImportNames(sf)
    /\ orderedCalls = orderCalls(calls, vr)
    /\ pc = "start"
    /\ idx = 0
    /\ callRanges = <<>>
    /\ resolutions = 0
    /\ inFlight = 0
    /\ queue = <<>>
    /\ stage = [t \in 1..Len(orderedCalls) |-> "idle"]
    /\ oracle = [t \in 1..Len(orderedCalls) |-> "notCalled"]
    /\ raceBy = [t \in 1..Len(orderedCalls) |-> "none"]
    /\ budgetExpired = FALSE
    /\ admitted = <<>>
    /\ drainIdx = 0
    /\ awaited = 0
    /\ raceWinner = 0
    /\ firstResult = NoResult
    /\ OutsideIdle

SpecImports == InitImports /\ [][Next]_vars

\* ---- a pass over files with definitions and calls -------------------------
\* [directives] import imp from './x'; one or two definitions; then
\* imp(); act(); imp();  -- one statement per line, or all on one line and
\* no line feed at the end of the text
RangedFile(marker, ds, layout) ==
    LET o == ScanBase(Len(ds) + 1) IN
    [statements |->
        Prologue(marker, 0)
        \o <<ImportDeclaration(FALSE, "imp", NoNode, 25)>>
        \o [k \in 1..Len(ds) |-> DefinitionStatement(ds[k], k)]
        \o <<ExpressionStatement(Call(Identifier("imp", o), <<>>)),
             ExpressionStatement(Call(Identifier("act", o + 20), <<>>)),
             ExpressionStatement(Call(Identifier("imp", o + 40), <<>>))>>,
     lineFeeds |-> IF layout = "oneLine" THEN {}
                   ELSE ScanLineFeeds(layout, Len(ds)) \cup {o + 19, o + 39},
     length |-> o + 46]

\* the async definitions tried: a function declaration, an arrow bound to a
\* variable with a block or an expression as body, an arrow passed to a call
\* in an initializer, an inline arrow
RangedShapes ==
    {d \in DefinitionShapes :
        /\ d.async
        /\ ~d.default
        /\ \/ d.form = "function" /\ d.exported /\ d.marker = "first"
           \/ d.form = "variable" /\ d.exported /\ d.marker = "expression"
           \/ d.form = "variable" /\ ~d.exported /\ d.marker = "first"
           \/ d.form = "nested" /\ d.exported /\ d.marker = "none"
           \/ d.form = "inline" /\ d.marker = "first"}

RangedFiles ==
    {RangedFile(m, ds, l) :
        m \in {"none", "first"}, ds \in SeqsUpTo(RangedShapes), l \in Layouts}

\* computeHighlights called without bounds, with the updater's bounds, or
\* with one resolution at a time
InitRanges ==
    /\ sf \in RangedFiles
    /\ useBounds \in BOOLEAN
    /\ maxConcurrent \in {1, DefaultMaxConcurrent}
    /\ ~useBounds => maxConcurrent = DefaultMaxConcurrent
    /\ maxResolutions = DefaultMaxResolutions
    /\ vr = NoRange
    /\ aborted = FALSE
    /\ spans = scanServerActions(sf)
    /\ bodyRanges = bodyRangesOf(sf, spans)
    /\ iconRanges = iconRangesOf(sf, spans)
    /\ localActionNames = actionNamesOf(spans)
    /\ calls = scanCallSiteCandidates(sf)
    /\ imported = collectImportedNames(sf)
    /\ locals = collectLocalCallableNames(sf)
    /\ nsImports = collectNamespaceImportNames(sf)
    /\ orderedCalls = orderCalls(calls, vr)
    /\ pc = "start"
    /\ idx = 0
    /\ callRanges = <<>>
    /\ resolutions = 0
    /\ inFlight = 0
    /\ queue = <<>>
    /\ stage = [t \in 1..Len(orderedCalls) |-> "idle"]
    /\ oracle = [t \in 1..Len(orderedCalls) |-> "notCalled"]
    /\ raceBy = [t \in 1..Len(orderedCalls) |-> "none"]
    /\ budgetExpired = FALSE
    /\ admitted = <<>>
    /\ drainIdx = 0
    /\ awaited = 0
    /\ raceWinner = 0
    /\ firstResult = NoResult
    /\ OutsideIdle

SpecRanges == InitRanges /\ [][Next]_vars

\* ------------------------------------------------------------------------
\* extension/exclude.ts
\* ------------------------------------------------------------------------
\* A path is the sequence of its parts: separators, dots and the names
\* between them.  A pattern source is given by what `new RegExp` makes of it:
\* a syntax error, or a sequence of alternatives to be found in consecutive
\* parts of the path, anchored at the end of the path or not.
Pattern(source, valid, atoms, anchoredEnd) ==
    [source |-> source, valid |-> valid, atoms |-> atoms,
     anchoredEnd |-> anchoredEnd]

ScriptExtensions == {"ts", "tsx", "js", "jsx"}

\* '\\.(stories|story)\\.[tj]sx?$'
StoriesPattern ==
    Pattern("stories", TRUE,
            <<{"."}, {"stories", "story"}, {"."}, ScriptExtensions>>, TRUE)

\* '\\.(test|spec)\\.[tj]sx?$'
TestPattern ==
    Pattern("test", TRUE,
            <<{"."}, {"test", "spec"}, {"."}, ScriptExtensions>>, TRUE)

\* '/__tests__/'
TestsDirPattern ==
    Pattern("__tests__", TRUE, <<{"/"}, {"__tests__"}, {"/"}>>, FALSE)

\* '/\\.storybook/'
StorybookPattern ==
    Pattern("storybook", TRUE, <<{"/"}, {"."}, {"storybook"}, {"/"}>>, FALSE)

\* a pattern of the user: 'generated'
GeneratedPattern ==
    Pattern("generated", TRUE, <<{"generated"}>>, FALSE)

\* a pattern of the user that is no regular expression: '('
BrokenPattern == Pattern("(", FALSE, <<>>, FALSE)

DefaultExclude ==
    <<StoriesPattern, TestPattern, TestsDirPattern, StorybookPattern>>

\* `new RegExp(p)`: the expression, or the SyntaxError thrown
NewRegExp(p) ==
    IF p.valid THEN [threw |-> FALSE, value |-> p]
    ELSE [threw |-> TRUE, value |-> "SyntaxError"]

\* a pattern loop that ends at the first pattern that does not compile
RECURSIVE compileUpToInvalid(_)
compileUpToInvalid(patterns) ==
    IF patterns = <<>> THEN <<>>
    ELSE LET r == NewRegExp(Head(patterns))
         IN  IF r.threw THEN <<>>
             ELSE <<r.value>> \o compileUpToInvalid(Tail(patterns))

RECURSIVE compilePatterns(_)
compilePatterns(patterns) ==
    IF patterns = <<>> THEN <<>>
    ELSE LET r == NewRegExp(Head(patterns))
         IN  (IF r.threw THEN <<>> ELSE <<r.value>>)
             \o compilePatterns(Tail(patterns))

\* cfg.get('files.exclude', [...]) and the Array.isArray test
getExcludeRegexes(setting) ==
    compilePatterns(
        CASE setting.kind = "unset" -> DefaultExclude
          [] setting.kind = "array" -> setting.value
          [] OTHER -> <<>>)

\* r.test(path)
test(r, path) ==
    \E i \in 1..Len(path) :
        /\ i + Len(r.atoms) - 1 <= Len(path)
        /\ \A k \in 1..Len(r.atoms) : path[i + k - 1] \in r.atoms[k]
        /\ r.anchoredEnd => i + Len(r.atoms) - 1 = Len(path)

\* fileName.replace(/\\/g, '/')
normalized(name) ==
    [i \in 1..Len(name) |-> IF name[i] = "\\" THEN "/" ELSE name[i]]

\* an exclusion test that excludes nothing
neverExcluded(name, setting) == FALSE

isExcludedFileName(name, setting) ==
    LET patterns == getExcludeRegexes(setting)
        path == normalized(name)
    IN  \E k \in 1..Len(patterns) : test(patterns[k], path)

\* the file names tried
FileNames ==
    { <<"/", "src", "/", "app", "/", "page", ".", "tsx">>,
      <<"/", "src", "/", "__tests__", "/", "page", ".", "tsx">>,
      <<"\\", "src", "\\", "__tests__", "\\", "page", ".", "tsx">>,
      <<"/", "src", "/", "__tests__">>,
      <<"/", "src", "/", "page", ".", "test", ".", "ts">>,
      <<"\\", "src", "\\", "page", ".", "spec", ".", "jsx">>,
      <<"/", "src", "/", "page", ".", "test", ".", "md">>,
      <<"/", "src", "/", "page", ".", "stories", ".", "tsx">>,
      <<"/", ".", "storybook", "/", "main", ".", "ts">>,
      <<"/", "src", "/", "generated", "/", "api", ".", "ts">> }

MaxPatterns == 3

ConfiguredPatterns ==
    {StoriesPattern, TestPattern, TestsDirPattern, StorybookPattern,
     GeneratedPattern, BrokenPattern}

\* the values of the setting: not set, set to something that is no array,
\* or a list of pattern sources
ExcludeSettings ==
    {[kind |-> "unset", value |-> <<>>], [kind |-> "notArray", value |-> <<>>]}
    \cup {[kind |-> "array", value |-> v] :
            v \in UNION {[1..n -> ConfiguredPatterns] : n \in 0..MaxPatterns}}

\* no pass of computeHighlights under way
PassIdle ==
    /\ sf = [statements |-> <<>>, lineFeeds |-> {}, length |-> 0]
    /\ useBounds = FALSE
    /\ maxConcurrent = DefaultMaxConcurrent
    /\ maxResolutions = DefaultMaxResolutions
    /\ vr = NoRange
    /\ spans = <<>>
    /\ bodyRanges = <<>>
    /\ iconRanges = <<>>
    /\ localActionNames = {}
    /\ calls = <<>>
    /\ imported = {}
    /\ locals = {}
    /\ nsImports = {}
    /\ orderedCalls = <<>>
    /\ aborted = FALSE
    /\ pc = "idle"
    /\ idx = 0
    /\ callRanges = <<>>
    /\ resolutions = 0
    /\ inFlight = 0
    /\ queue = <<>>
    /\ stage = <<>>
    /\ oracle = <<>>
    /\ raceBy = <<>>
    /\ budgetExpired = FALSE
    /\ admitted = <<>>
    /\ drainIdx = 0
    /\ awaited = 0
    /\ raceWinner = 0
    /\ firstResult = NoResult

analysis ==
    <<sf, useBounds, maxConcurrent, maxResolutions, vr, spans, bodyRanges,
      iconRanges, localActionNames, calls, imported, locals, nsImports,
      orderedCalls, firstResult, aborted, pc, idx, callRanges, resolutions,
      inFlight, queue, stage, oracle, raceBy, budgetExpired, admitted,
      drainIdx, awaited, raceWinner>>

ExtensionIdle ==
    /\ activeEditor = 0
    /\ decorations = 0
    /\ disposed = {}
    /\ timer = 0
    /\ timers = <<>>
    /\ seq = 0
    /\ currentAbort = 0
    /\ abortedControllers = {}
    /\ runs = <<>>
    /\ decorationCalls = <<>>

ResolverIdle ==
    /\ request = <<>>
    /\ visited = {}
    /\ resolveQueue = <<>>
    /\ hops = 0
    /\ resolved = "none"
    /\ dequeued = <<>>
    /\ located = {}

InitExclude ==
    /\ PassIdle
    /\ ExtensionIdle
    /\ ResolverIdle
    /\ excludeSetting \in ExcludeSettings
    /\ testedFileName \in FileNames
    /\ regs = <<>>
    /\ excludedAnswer = "none"

\* isExcludedFileName(fileName) without the optional argument
IsExcludedFileName ==
    /\ excludedAnswer = "none"
    /\ regs' = getExcludeRegexes(excludeSetting)
    /\ excludedAnswer' =
          IF isExcludedFileName(testedFileName, excludeSetting)
          THEN "true" ELSE "false"
    /\ UNCHANGED <<analysis, extension, resolver, excludeSetting, testedFileName>>

NextExclude == IsExcludedFileName

SpecExclude == InitExclude /\ [][NextExclude]_vars

\* ------------------------------------------------------------------------
\* extension/updater.ts and the debounced extension/controller.ts
\* ------------------------------------------------------------------------
SUPPORTED == {"typescript", "typescriptreact"}

\* bounds.maxConcurrent of the updater's call of computeHighlights
UpdaterMaxConcurrent == 6

\* oracle-eligible call sites of a document
MaxCandidates == 7

\* trigger events after registration
MaxEvents == 3

\* decoration bundles created (the first at registration)
MaxBundles == 2

\* the open editors: their documents
Editors ==
    << [languageId |-> "typescriptreact",
        fileName |-> <<"/", "src", "/", "app", "/", "page", ".", "tsx">>,
        candidates |-> MaxCandidates],
       [languageId |-> "typescript",
        fileName |-> <<"\\", "src", "\\", "__tests__", "\\", "page", ".", "ts">>,
        candidates |-> MaxCandidates],
       [languageId |-> "javascript",
        fileName |-> <<"/", "src", "/", "app", "/", "page", ".", "js">>,
        candidates |-> MaxCandidates] >>

\* the settings of files.exclude tried with the updater
UpdaterExcludeSettings ==
    {[kind |-> "unset", value |-> <<>>],
     [kind |-> "array", value |-> <<BrokenPattern, TestsDirPattern>>]}

\* clearTimeout that leaves the timer armed
clearNothing(ts, h) == ts

\* clearTimeout(h): a timer that has fired or was cleared is left alone
clearTimeout(ts, h) ==
    IF h # 0 /\ ts[h] \in {"pending", "due"}
    THEN [ts EXCEPT ![h] = "cleared"]
    ELSE ts

\* scheduleUpdate: cancel the pending timer, arm a new one
scheduleUpdate ==
    /\ timers' = Append(clearTimeout(timers, timer), "pending")
    /\ timer' = Len(timers) + 1

\* the three editor.setDecorations calls of a run, in the order given
setDecorations(r, e, bundle, kinds, value) ==
    [k \in 1..Len(kinds) |->
        [run |-> r, editor |-> e, bundle |-> bundle, kind |-> kinds[k],
         value |-> value, live |-> bundle \notin disposed]]

Run(e, bundle, at, oracleCalls) ==
    [editor |-> e, bundle |-> bundle, stage |-> at,
     oracleCalls |-> oracleCalls]

\* what computeHighlights does before it first waits for an oracle answer:
\* it calls resolveFn for the first maxConcurrent candidates
callsBeforeFirstWait(doc) ==
    IF doc.candidates < UpdaterMaxConcurrent
    THEN doc.candidates ELSE UpdaterMaxConcurrent

\* updateEditor(editor), up to its return or to the await of computeHighlights
updateEditor(e) ==
    LET runId == seq + 1 IN
    /\ seq' = runId
    /\ abortedControllers' =
          IF currentAbort # 0 THEN abortedControllers \cup {currentAbort}
          ELSE abortedControllers
    /\ currentAbort' = runId
    /\ IF e = 0
       THEN /\ runs' = Append(runs, Run(0, 0, "noEditor", 0))
            /\ UNCHANGED decorationCalls
       ELSE IF \/ Editors[e].languageId \notin SUPPORTED
               \/ isExcludedFileName(Editors[e].fileName, excludeSetting)
       THEN /\ decorationCalls' =
                  decorationCalls
                  \o setDecorations(runId, e, decorations,
                                    <<"body", "call", "icon">>, "empty")
            /\ runs' = Append(runs, Run(e, decorations, "cleared", 0))
       ELSE /\ runs' = Append(runs, Run(e, decorations, "awaiting",
                                        callsBeforeFirstWait(Editors[e])))
            /\ UNCHANGED decorationCalls

\* registerHighlighter: decorations created, the initial update scheduled
InitExtension ==
    /\ PassIdle
    /\ ResolverIdle
    /\ excludeSetting \in UpdaterExcludeSettings
    /\ testedFileName = <<>>
    /\ regs = <<>>
    /\ excludedAnswer = "none"
    /\ activeEditor \in 0..Len(Editors)
    /\ decorations = 1
    /\ disposed = {}
    /\ timer = 1
    /\ timers = <<"pending">>
    /\ seq = 0
    /\ currentAbort = 0
    /\ abortedControllers = {}
    /\ runs = <<>>
    /\ decorationCalls = <<>>

unchangedByExtension ==
    UNCHANGED <<analysis, resolver, excludeSetting, testedFileName, regs,
                excludedAnswer>>

\* onDidChangeActiveTextEditor
ChangeActiveTextEditor(e) ==
    /\ Len(timers) <= MaxEvents
    /\ e # activeEditor
    /\ activeEditor' = e
    /\ scheduleUpdate
    /\ UNCHANGED <<decorations, disposed, seq, currentAbort,
                   abortedControllers, runs, decorationCalls>>
    /\ unchangedByExtension

\* onDidChangeTextDocument, onDidOpenTextDocument: for the document of editor d
DocumentEvent(d) ==
    /\ Len(timers) <= MaxEvents
    /\ IF activeEditor # 0 /\ d = activeEditor
       THEN scheduleUpdate
       ELSE UNCHANGED <<timer, timers>>
    /\ UNCHANGED <<activeEditor, decorations, disposed, seq, currentAbort,
                   abortedControllers, runs, decorationCalls>>
    /\ unchangedByExtension

\* onDidChangeActiveColorTheme, onDidChangeConfiguration (affecting the
\* highlight settings): dispose the bundle, create a new one, schedule
RecreateDecorations ==
    /\ Len(timers) <= MaxEvents
    /\ decorations < MaxBundles
    /\ disposed' = disposed \cup {decorations}
    /\ decorations' = decorations + 1
    /\ scheduleUpdate
    /\ UNCHANGED <<activeEditor, seq, currentAbort, abortedControllers, runs,
                   decorationCalls>>
    /\ unchangedByExtension

\* 200 ms have passed since timer h was armed
Elapse(h) ==
    /\ timers[h] = "pending"
    /\ timers' = [timers EXCEPT ![h] = "due"]
    /\ UNCHANGED <<activeEditor, decorations, disposed, timer, seq,
                   currentAbort, abortedControllers, runs, decorationCalls>>
    /\ unchangedByExtension

\* the timer callback: void updateEditor(vscode.window.activeTextEditor)
TimerCallback(h) ==
    /\ timers[h] = "due"
    /\ timers' = [timers EXCEPT ![h] = "fired"]
    /\ updateEditor(activeEditor)
    /\ UNCHANGED <<activeEditor, decorations, disposed, timer>>
    /\ unchangedByExtension

\* the pass of run r, waiting for a slot, goes on to the next candidate
PassCallsOracle(r) ==
    /\ runs[r].stage = "awaiting"
    /\ runs[r].oracleCalls < Editors[runs[r].editor].candidates
    /\ runs' = [runs EXCEPT ![r].oracleCalls = @ + 1]
    /\ UNCHANGED <<activeEditor, decorations, disposed, timer, timers, seq,
                   currentAbort, abortedControllers, decorationCalls>>
    /\ unchangedByExtension

\* a run that applies its result whatever has been started since
neverSuperseded(r) == FALSE

\* runId !== seq
superseded(r) == r # seq

\* computeHighlights of run r resolves and updateEditor goes on
PassReturns(r) ==
    /\ runs[r].stage = "awaiting"
    /\ IF superseded(r)
       THEN /\ runs' = [runs EXCEPT ![r].stage = "stale"]
            /\ UNCHANGED decorationCalls
       ELSE /\ runs' = [runs EXCEPT ![r].stage = "applied"]
            /\ decorationCalls' =
                  decorationCalls
                  \o setDecorations(r, runs[r].editor, runs[r].bundle,
                                    <<"body", "icon", "call">>, "ranges")
    /\ UNCHANGED <<activeEditor, decorations, disposed, timer, timers, seq,
                   currentAbort, abortedControllers>>
    /\ unchangedByExtension

\* a failing run that clears the decorations of its editor
PassFailsAndClears(r) ==
    /\ runs[r].stage = "awaiting"
    /\ runs' = [runs EXCEPT ![r].stage = "failed"]
    /\ decorationCalls' =
          decorationCalls
          \o setDecorations(r, runs[r].editor, runs[r].bundle,
                            <<"body", "call", "icon">>, "empty")
    /\ UNCHANGED <<activeEditor, decorations, disposed, timer, timers, seq,
                   currentAbort, abortedControllers>>
    /\ unchangedByExtension

\* computeHighlights of run r rejects: the await throws, updateEditor rejects
PassFails(r) ==
    /\ runs[r].stage = "awaiting"
    /\ runs' = [runs EXCEPT ![r].stage = "failed"]
    /\ UNCHANGED <<activeEditor, decorations, disposed, timer, timers, seq,
                   currentAbort, abortedControllers, decorationCalls>>
    /\ unchangedByExtension

NextExtension ==
    \/ \E e \in 0..Len(Editors) : ChangeActiveTextEditor(e)
    \/ \E d \in 1..Len(Editors) : DocumentEvent(d)
    \/ RecreateDecorations
    \/ \E h \in 1..Len(timers) : Elapse(h)
    \/ \E h \in 1..Len(timers) : TimerCallback(h)
    \/ \E r \in 1..Len(runs) : PassCallsOracle(r)
    \/ \E r \in 1..Len(runs) : PassReturns(r)
    \/ \E r \in 1..Len(runs) : PassFails(r)

SpecExtension == InitExtension /\ [][NextExtension]_vars

\* timers fire: 200 ms pass, and a due callback is run
FairSpecExtension ==
    /\ SpecExtension
    /\ WF_vars(\E h \in 1..Len(timers) : Elapse(h))
    /\ WF_vars(\E h \in 1..Len(timers) : TimerCallback(h))

\* ------------------------------------------------------------------------
\* extension/resolver.ts: makeVsCodeResolveFn
\* ------------------------------------------------------------------------
\* `hops < 3`
HopLimit == 3

\* locations one provider returns for one position
MaxLocations == 1

Location(uri, offset) == [uri |-> uri, offset |-> offset]

\* the documents of the workspace: a file with the named action act, a file
\* with an inline action that has no name, a file without actions
WorkspaceUris == {"file:a", "file:b", "file:c"}

DocumentText(uri) ==
    CASE uri = "file:a" -> SourceFile(<<>>)
      [] uri = "file:b" ->
            DefinitionsFile("none",
                <<[form |-> "inline", exported |-> FALSE, default |-> FALSE,
                   async |-> TRUE, marker |-> "first"]>>, "lines")
      [] uri = "file:c" ->
            DefinitionsFile("none",
                <<[form |-> "function", exported |-> FALSE, default |-> FALSE,
                   async |-> FALSE, marker |-> "none"]>>, "lines")

\* vscode.workspace.openTextDocument(uri): throws for a document that is gone
canOpen(uri) == uri \in WorkspaceUris

\* the locations the language service may answer with: around the name and
\* the body of act, at and after the body of the inline action, in the file
\* without actions, and in a document that cannot be opened
Locations ==
    {Location("file:a", o) : o \in {59, 60, 63, 64, 66, 84, 85}}
    \cup {Location("file:b", 140), Location("file:c", 140),
          Location("file:gone", 0)}

\* the locations the type-definition and the implementation provider may
\* answer with
TypeLocations == {Location("file:a", 85), Location("file:b", 140)}

ImplementationLocations == {Location("file:a", 59), Location("file:gone", 0)}

\* scanServerActions(targetText, targetDoc.fileName), per document
WorkspaceActions ==
    [uri \in WorkspaceUris |-> scanServerActions(DocumentText(uri))]

\* what one provider returns: undefined, or a list of locations
ProviderAnswers(locs) ==
    {[defined |-> FALSE, locations |-> <<>>]}
    \cup {[defined |-> TRUE, locations |-> ls] :
             ls \in UNION {[1..n -> locs] : n \in 0..MaxLocations}}

\* if (xs?.length) all.push(...xs)
pushAllOf(all, xs) ==
    IF xs.defined /\ Len(xs.locations) > 0 THEN all \o xs.locations ELSE all

\* a body test without the upper bound
inBodyOrAfter(a, defOffset) == defOffset >= a.bodyStart

inName(a, defOffset) ==
    /\ a.nameStart # NoOffset
    /\ a.nameEnd # NoOffset
    /\ defOffset >= a.nameStart
    /\ defOffset <= a.nameEnd

inBody(a, defOffset) == defOffset >= a.bodyStart /\ defOffset <= a.bodyEnd

\* the loop over the actions of the target document
matchesAction(actions, defOffset) ==
    \E k \in 1..Len(actions) :
        inName(actions[k], defOffset) \/ inBody(actions[k], defOffset)

\* the loop over `all` from location k on: the worklist with the locations
\* pushed, and whether the function returned true
RECURSIVE examine(_, _, _)
examine(all, k, q) ==
    IF k > Len(all) THEN [found |-> FALSE, queue |-> q]
    ELSE IF ~canOpen(all[k].uri) THEN examine(all, k + 1, q)
    ELSE IF matchesAction(WorkspaceActions[all[k].uri], all[k].offset)
    THEN [found |-> TRUE, queue |-> q]
    ELSE examine(all, k + 1, Append(q, Location(all[k].uri, all[k].offset)))

\* a visited test that never finds the key
neverVisited(key) == FALSE

\* visited.has(key), key = `${curUri}@${curOffset}`
hasVisited(key) == key \in visited

\* the call sites the resolve function is called for
Requests ==
    {Location("file:a", 59), Location("file:c", 140)}

InitResolve ==
    /\ PassIdle
    /\ ExtensionIdle
    /\ excludeSetting = <<>>
    /\ testedFileName = <<>>
    /\ regs = <<>>
    /\ excludedAnswer = "none"
    /\ request \in Requests
    /\ visited = {}
    /\ resolveQueue = <<request>>
    /\ hops = 0
    /\ resolved = "none"
    /\ dequeued = <<>>
    /\ located = {}

\* one iteration of the while loop, with the answers of the three providers
Hop(defs, tdefs, impls) ==
    /\ resolved = "none"
    /\ resolveQueue # <<>>
    /\ hops < HopLimit
    /\ hops' = hops + 1
    /\ LET cur == Head(resolveQueue)
           key == <<cur.uri, cur.offset>>
           all == pushAllOf(pushAllOf(pushAllOf(<<>>, defs), tdefs), impls)
           r == examine(all, 1, Tail(resolveQueue))
       IN  IF hasVisited(key)
           THEN /\ dequeued' = Append(dequeued, [entry |-> cur, processed |-> FALSE])
                /\ resolveQueue' = Tail(resolveQueue)
                /\ UNCHANGED <<visited, located, resolved>>
           ELSE /\ dequeued' = Append(dequeued, [entry |-> cur, processed |-> TRUE])
                /\ visited' = visited \cup {key}
                /\ located' = {all[k] : k \in 1..Len(all)}
                /\ resolveQueue' = r.queue
                /\ resolved' = IF r.found THEN "true" ELSE "none"
    /\ UNCHANGED <<analysis, extension, exclusion, request>>

\* the loop condition fails: return false
ReturnFalse ==
    /\ resolved = "none"
    /\ ~(resolveQueue # <<>> /\ hops < HopLimit)
    /\ resolved' = "false"
    /\ UNCHANGED <<analysis, extension, exclusion, request, visited,
                   resolveQueue, hops, dequeued, located>>

NextResolve ==
    \/ \E defs \in ProviderAnswers(Locations) :
          \E tdefs \in ProviderAnswers(TypeLocations) :
             \E impls \in ProviderAnswers(ImplementationLocations) :
                Hop(defs, tdefs, impls)
    \/ ReturnFalse

SpecResolve == InitResolve /\ [][NextResolve]_vars

\* the language service answers and the function goes on
FairSpecResolve == SpecResolve /\ WF_vars(NextResolve)


\* ------------------------------------------------------------------------
\* Properties of a pass
\* ------------------------------------------------------------------------
Range(s) == {s[i] : i \in 1..Len(s)}

\* the candidates resolveFn has been called for
admittedCands == {admitted[k].cand : k \in 1..Len(admitted)}

\* the candidates whose resolution task has started and not finished
racingCands == {t \in 1..N : stage[t] = "racing"}

\* computeHighlights has returned its result
returned == pc = "done"

\* C1 (budget enforcement): in a pass run with controls, at most
\* maxResolutions calls of resolveFn occur during the pass, whatever the
\* order in which the oracle's answers arrive.
C1_BudgetEnforcement ==
    useBounds => Len(admitted) <= maxResolutions

\* C2 (drain): when the pass is not cancelled, computeHighlights returns only
\* after every admitted resolution task has finished: no admitted task is
\* still pending at the moment the result is returned.
C2_DrainWaitsForAll ==
    (returned /\ ~aborted) => \A t \in admittedCands : stage[t] # "racing"

\* C3 (concurrency cap): in a pass run with controls, the number of in-flight
\* resolutions (admitted, task not finished) and the counter inFlight never
\* exceed maxConcurrent, and a step that admits a resolution starts from a
\* state in which the pool is not full.
C3_ConcurrencyCap ==
    /\ [](useBounds =>
            /\ Cardinality(racingCands) <= inFlight
            /\ inFlight <= maxConcurrent)
    /\ [][(useBounds /\ admitted' # admitted) => inFlight < maxConcurrent]_vars

\* a candidate was admitted after the pass had to wait for a slot of a full
\* pool, and the pool is full again
C3_Witness ==
    /\ useBounds
    /\ Len(admitted) > maxConcurrent
    /\ Cardinality(racingCands) = maxConcurrent
    /\ inFlight = maxConcurrent


\* C4 (entry-point attributes are always surfaced): when the pass returns,
\* the span of every candidate of kind jsxAction or jsxFormAction is in
\* callRanges, whatever the filters, the oracle's answers, the visible-range
\* ordering and the state of the resolution budget.
C4_AttributesAlwaysSurfaced ==
    returned =>
        \A i \in 1..N :
            isAttribute(orderedCalls[i]) =>
                site(orderedCalls[i]) \in Range(callRanges)

\* C5 (per-resolution timeout): in a pass run with controls, when the timer
\* of a resolution fires before resolveFn settles, the span of that
\* candidate is never added to callRanges, also when resolveFn answers true
\* later; a candidate whose own answer true arrived in time is still added.
C5_TimeoutIsNegative ==
    \A t \in 1..N :
        /\ raceBy[t] = "timer" =>
                site(orderedCalls[t]) \notin Range(callRanges)
        /\ (raceBy[t] = "oracle" /\ oracle[t] = "true") =>
                site(orderedCalls[t]) \in Range(callRanges)

\* one resolution timed out and got the answer true afterwards, another one
\* got the answer true in time
C5_Witness ==
    \E t, u \in 1..N :
        /\ raceBy[t] = "timer" /\ oracle[t] = "true"
        /\ raceBy[u] = "oracle" /\ oracle[u] = "true"

\* C6 (cancellation): once the signal of the pass has been signalled (also
\* before the candidate loop begins), no further call of resolveFn is
\* admitted in that pass.
C6_NoAdmissionAfterCancel ==
    [][aborted => admitted' = admitted]_vars

\* C7 (local short-circuit): resolveFn is never called for a candidate whose
\* calleeName is the name of a non-inline, non-default action of the same
\* file, and when the pass returns the span of every such candidate is in
\* callRanges, under any controls and any state of the budget.
C7_LocalShortCircuit ==
    /\ \A t \in admittedCands : ~isLocalAction(orderedCalls[t])
    /\ returned =>
           \A i \in 1..N :
               isLocalAction(orderedCalls[i]) =>
                   site(orderedCalls[i]) \in Range(callRanges)


\* a candidate that is no entry-point attribute, whose calleeName is in none
\* of importedNames, localCallableNames and the local action names, and whose
\* qualifierName is absent or no namespace-import name
unlisted(c) ==
    /\ ~isAttribute(c)
    /\ c.calleeName \notin imported
    /\ c.calleeName \notin locals
    /\ c.calleeName \notin localActionNames
    /\ \/ c.qualifierName = NoName
       \/ c.qualifierName \notin nsImports

\* candidate i is never passed to the oracle and its span is not in callRanges
rejectedUnseen(i) ==
    /\ i \notin admittedCands
    /\ site(orderedCalls[i]) \notin Range(callRanges)

\* the candidate loop has gone past candidate i
passed(i) == idx > i \/ (~useBounds /\ returned)

\* C8 as stated (filter correctness): a non-attribute candidate whose
\* calleeName is in neither importedNames nor localCallableNames nor the
\* local action names, and whose qualifierName is absent or no
\* namespace-import name, is never passed to the oracle and never appears
\* in callRanges.
C8_FilterAsStated ==
    \A i \in 1..N : unlisted(orderedCalls[i]) => rejectedUnseen(i)

\* C8 (filter correctness, for candidates that carry a name): a non-attribute
\* candidate with a non-empty calleeName that is in neither importedNames nor
\* localCallableNames nor the local action names, and whose qualifierName is
\* absent or no namespace-import name, is never passed to the oracle and
\* never appears in callRanges, also when the oracle answers true every time.
C8_FilterCorrectness ==
    \A i \in 1..N :
        (unlisted(orderedCalls[i]) /\ orderedCalls[i].calleeName # NoName)
            => rejectedUnseen(i)

\* the pass has returned after going past a named unlisted candidate, with
\* an oracle that answered true to every call made
C8_Witness ==
    /\ returned
    /\ admitted # <<>>
    /\ \A t \in admittedCands : oracle[t] = "true" /\ raceBy[t] = "oracle"
    /\ \E i \in 1..N :
           /\ unlisted(orderedCalls[i])
           /\ orderedCalls[i].calleeName # NoName
           /\ passed(i)

\* the spans of the call statements of the file whose callee is a property
\* access on a base of the given kind
callSpansWithBase(kinds) ==
    {[start |-> st.expression.expression.name.pos, end |-> st.expression.end] :
        st \in {sf.statements[k] : k \in
                  {j \in 1..Len(sf.statements) :
                      /\ sf.statements[j].kind = "ExpressionStatement"
                      /\ sf.statements[j].expression.kind = "CallExpression"
                      /\ sf.statements[j].expression.expression.kind
                            = "PropertyAccessExpression"
                      /\ sf.statements[j].expression.expression.expression.kind
                            \in kinds}}}

\* candidate i is a call base.name() with base a namespace-import name and
\* name neither imported nor locally declared
isNamespaceCall(i) ==
    /\ site(orderedCalls[i]) \in callSpansWithBase({"Identifier"})
    /\ orderedCalls[i].qualifierName \in nsImports
    /\ orderedCalls[i].calleeName \notin imported
    /\ orderedCalls[i].calleeName \notin locals
    /\ orderedCalls[i].calleeName \notin localActionNames

\* candidate i is a two-level call a.b.name() with name neither imported nor
\* locally declared
isTwoLevelCall(i) ==
    /\ site(orderedCalls[i]) \in callSpansWithBase({"PropertyAccessExpression"})
    /\ orderedCalls[i].calleeName \notin imported
    /\ orderedCalls[i].calleeName \notin locals
    /\ orderedCalls[i].calleeName \notin localActionNames

\* C9 (namespace exemption): a call ns.fn() whose qualifier is a
\* namespace-import name passes the pre-filter although fn is neither
\* imported nor locally declared, and resolveFn has been called for it once
\* the candidate loop has gone past it; a two-level call ns.group.fn() is
\* never passed to resolveFn and never appears in callRanges.
C9_NamespaceExemption ==
    \A i \in 1..N :
        /\ isNamespaceCall(i) =>
               /\ ~isFilteredOut(orderedCalls[i])
               /\ passed(i) => i \in admittedCands
        /\ isTwoLevelCall(i) => rejectedUnseen(i)

\* the pass has returned; it resolved a call ns.fn() and went past a call
\* ns.group.fn()
C9_Witness ==
    /\ returned
    /\ \E i, j \in 1..N :
           /\ isNamespaceCall(i) /\ i \in admittedCands
           /\ site(orderedCalls[i]) \in Range(callRanges)
           /\ isTwoLevelCall(j) /\ (j < i \/ ~useBounds)

\* position of a candidate in extraction order
extractionIndex(c) == CHOOSE k \in 1..Len(calls) : calls[k] = c

\* candidate i needs the oracle
needsOracle(i) ==
    /\ ~isAttribute(orderedCalls[i])
    /\ ~isLocalAction(orderedCalls[i])
    /\ ~isFilteredOut(orderedCalls[i])

inViewCand(i) == vr # NoRange /\ overlapsVisible(orderedCalls[i], vr)

\* C10 (visible-first admission order): with a visibleRange the candidates
\* are processed with all those overlapping it first and all others after,
\* each group in extraction order; without one, in extraction order.
\* resolveFn is called in processing order without skipping a candidate that
\* needs the oracle, so no out-of-view candidate is admitted before every
\* in-view candidate that needs the oracle.
C10_VisibleFirst ==
    /\ Range(orderedCalls) = Range(calls)
    /\ N = Len(calls)
    /\ vr = NoRange => orderedCalls = calls
    /\ \A i, j \in 1..N :
           i < j =>
               /\ inViewCand(j) => inViewCand(i)
               /\ (inViewCand(i) <=> inViewCand(j)) =>
                      extractionIndex(orderedCalls[i])
                          < extractionIndex(orderedCalls[j])
    /\ \A k, l \in 1..Len(admitted) :
           k < l => admitted[k].cand < admitted[l].cand
    /\ \A j \in admittedCands :
           \A i \in 1..N :
               (needsOracle(i) /\ inViewCand(i) /\ ~inViewCand(j))
                   => i \in admittedCands

\* the visible range moved a later candidate in front of an earlier one, and
\* resolveFn was called for the in-view candidate first, then for the
\* out-of-view candidate that precedes it in the file
C10_Witness ==
    /\ vr # NoRange
    /\ Len(admitted) >= 2
    /\ inViewCand(admitted[1].cand)
    /\ ~inViewCand(admitted[2].cand)
    /\ extractionIndex(orderedCalls[admitted[2].cand])
          < extractionIndex(orderedCalls[admitted[1].cand])

\* C11 (time budget): in a pass run with controls, no call of resolveFn is
\* admitted at a moment when the time elapsed since the pass began exceeds
\* perPassBudgetMs, also when the admission was delayed by waiting for a free
\* pool slot.
C11_NoAdmissionPastTimeBudget ==
    [][(useBounds /\ admitted' # admitted) => ~budgetExpired]_vars

\* no candidate was passed to resolveFn twice
admittedOnce ==
    \A k, l \in 1..Len(admitted) : k # l => admitted[k].cand # admitted[l].cand

C13_LegacyUnlimitedConcurrency ==
    ~(/\ ~useBounds
      /\ pc = "awaitTask"
      /\ stage[idx] = "racing"
      /\ \E j \in (idx + 1)..N : needsOracle(j))

\* C13 (legacy mode is sequential): without options the resolution task is
\* awaited inline, so at most one call of resolveFn is in flight at any time
\* and a call is started only when no earlier one is still in flight.
C13_LegacySequential ==
    /\ [](~useBounds => Cardinality(racingCands) <= 1)
    /\ [][(~useBounds /\ admitted' # admitted) => racingCands = {}]_vars

\* a pass without options is resolving its second candidate after the first
\* was answered, and a third one is still to come
C13_Witness ==
    /\ ~useBounds
    /\ Len(admitted) = 2
    /\ stage[admitted[1].cand] = "finished"
    /\ stage[admitted[2].cand] = "racing"
    /\ \E j \in (idx + 1)..N : needsOracle(j)

\* C14 (oracle exception on the non-cancelled path): if an admitted call of
\* resolveFn has thrown (its promise rejected) during a pass that is not
\* cancelled, computeHighlights does not return a result: no step returns
\* the result of a pass in which a resolution task was rejected, with or
\* without options and whenever the rejection happened.
C14_OracleThrowFailsPass ==
    [][(pc # "done" /\ pc' = "done" /\ ~aborted)
          => \A t \in 1..N : ~rejected(t)]_vars

\* the same without options only
C14_LegacyThrowFailsPass ==
    [][(~useBounds /\ pc # "done" /\ pc' = "done")
          => \A t \in 1..N : ~rejected(t)]_vars

\* position in processing order of the candidate a range of callRanges
\* belongs to
processingIndex(r) == CHOOSE i \in 1..N : site(orderedCalls[i]) = r

\* C17 (output order): the entries of callRanges appear in the order in
\* which their candidates were processed and admitted (the visible-first
\* order of orderedCalls), not in the order in which the calls of resolveFn
\* happened to complete.
C17_OutputInProcessingOrder ==
    \A k, l \in 1..Len(callRanges) :
        k < l => processingIndex(callRanges[k]) < processingIndex(callRanges[l])

\* C16 (determinism): two passes over the same text with the same options,
\* in both of which resolveFn answered true to every call (in time, and with
\* neither pass cancelled or cut short by the clock), return identical
\* bodyRanges, iconRanges and callRanges: same contents, same order, with and
\* without controls and whatever the order in which the answers arrived.
C16_Deterministic ==
    (firstResult.known /\ returned /\ answeredTrueInTime) =>
        /\ bodyRanges = firstResult.bodyRanges
        /\ iconRanges = firstResult.iconRanges
        /\ callRanges = firstResult.callRanges

\* the same for passes without options
C16_LegacyDeterministic ==
    (~useBounds /\ firstResult.known /\ returned /\ answeredTrueInTime) =>
        /\ bodyRanges = firstResult.bodyRanges
        /\ iconRanges = firstResult.iconRanges
        /\ callRanges = firstResult.callRanges

\* no two entries of a list of ranges have equal (start, end)
noDuplicates(ranges) ==
    \A k, l \in 1..Len(ranges) : k # l => ranges[k] # ranges[l]

\* C15 (output deduplication): in the result of any pass, each of
\* bodyRanges, iconRanges and callRanges contains no two entries with equal
\* (start, end), also when several action definitions lie on the same source
\* line(s).
C15_OutputsDeduplicated ==
    pc # "parsed" =>
        /\ noDuplicates(bodyRanges)
        /\ noDuplicates(iconRanges)
        /\ noDuplicates(callRanges)

\* the part of C15 about callRanges
C15_CallRangesDeduplicated == noDuplicates(callRanges)

\* the texts of the leading directives of a statement list: the string
\* literal statements it begins with
RECURSIVE leadingDirectives(_)
leadingDirectives(statements) ==
    IF statements = <<>> THEN {}
    ELSE IF /\ Head(statements).kind = "ExpressionStatement"
            /\ Head(statements).expression.kind = "StringLiteral"
    THEN {Head(statements).expression.text}
         \cup leadingDirectives(Tail(statements))
    ELSE {}

functionLike(n) ==
    n.kind \in {"FunctionDeclaration", "ArrowFunction", "FunctionExpression"}

\* the function-like nodes of a subtree, each with whether it is an
\* exported declaration or lies in the initializer of one
RECURSIVE functionsIn(_, _)
RECURSIVE functionsInAll(_, _)
functionsIn(n, inExported) ==
    LET exportedHere ==
            \/ inExported
            \/ n.kind = "FunctionDeclaration" /\ "export" \in n.modifiers
        below ==
            \/ inExported
            \/ n.kind = "VariableStatement" /\ "export" \in n.modifiers
    IN (IF functionLike(n)
        THEN <<[node |-> n, exported |-> exportedHere]>> ELSE <<>>)
       \o functionsInAll(Children(n), below)

functionsInAll(ns, inExported) ==
    IF ns = <<>> THEN <<>>
    ELSE functionsIn(Head(ns), inExported)
         \o functionsInAll(Tail(ns), inExported)

\* the function-like nodes of the file
functions == functionsInAll(sf.statements, FALSE)

\* the module begins with directives among which is 'use server'
moduleMarked == "use server" \in leadingDirectives(sf.statements)

\* the function's own body begins with directives among which is 'use server'
bodyMarked(fn) ==
    /\ fn.body.kind = "Block"
    /\ "use server" \in leadingDirectives(fn.body.statements)

asyncFunction(fn) == "async" \in fn.modifiers

\* span i was reported for the function f
reportedFor(i, f) ==
    /\ f.node.body # NoNode
    /\ spans[i].bodyStart = f.node.body.pos
    /\ spans[i].bodyEnd = f.node.body.end

reported(f) == \E i \in 1..Len(spans) : reportedFor(i, f)

\* the condition a reported function has to meet
qualifies(f) ==
    /\ asyncFunction(f.node)
    /\ \/ bodyMarked(f.node)
       \/ f.exported /\ moduleMarked

\* C18 (definition eligibility): every span reported by scanServerActions
\* is the body of a function-like node that is async and whose own body's
\* leading directives contain 'use server' or that is (or is nested in the
\* initializer of) an exported declaration of a module whose leading
\* directives contain 'use server'.  So a non-async function is never
\* reported, nor an async function without a marker at module or body level,
\* nor a non-exported declaration on the strength of the module marker alone.
C18_DefinitionEligibility ==
    pc # "parsed" =>
        /\ \A i \in 1..Len(spans) :
               \E j \in 1..Len(functions) : reportedFor(i, functions[j])
        /\ \A j \in 1..Len(functions) :
               reported(functions[j]) => qualifies(functions[j])

\* a module with the marker was scanned: an exported async function without
\* a directive of its own was reported, a non-exported one was not, and
\* neither was a non-async function whose body has the directive
C18_Witness ==
    /\ pc # "parsed"
    /\ moduleMarked
    /\ \E j, k \in 1..Len(functions) :
           /\ functions[j].exported
           /\ asyncFunction(functions[j].node)
           /\ ~bodyMarked(functions[j].node)
           /\ reported(functions[j])
           /\ ~functions[k].exported
           /\ asyncFunction(functions[k].node)
           /\ ~bodyMarked(functions[k].node)
           /\ ~reported(functions[k])
    /\ \E j \in 1..Len(functions) :
           /\ ~asyncFunction(functions[j].node)
           /\ bodyMarked(functions[j].node)
           /\ ~reported(functions[j])

\* the candidates in the order the rules of scanCallSiteCandidates discover
\* them, before push
discovered == walkAll(sf.statements)

sameSpan(c, d) == c.start = d.start /\ c.end = d.end

\* where a candidate with the span of c is discovered first
firstDiscovery(c) ==
    CHOOSE k \in 1..Len(discovered) :
        /\ sameSpan(discovered[k], c)
        /\ \A j \in 1..(k - 1) : ~sameSpan(discovered[j], c)

\* the first discovered candidate with the span of c
firstDiscovered(c) == discovered[firstDiscovery(c)]

isWrapper(e) ==
    e.kind \in {"ParenthesizedExpression", "NonNullExpression", "AsExpression",
                "TypeAssertionExpression", "SatisfiesExpression"}

\* number of wrapper layers around an expression, and what they wrap
RECURSIVE layersOf(_)
layersOf(e) == IF isWrapper(e) THEN 1 + layersOf(e.expression) ELSE 0

RECURSIVE coreOf(_)
coreOf(e) == IF isWrapper(e) THEN coreOf(e.expression) ELSE e

\* the call statements of the file
callStatements ==
    {k \in 1..Len(sf.statements) :
        /\ sf.statements[k].kind = "ExpressionStatement"
        /\ sf.statements[k].expression.kind = "CallExpression"}

callOf(k) == sf.statements[k].expression

\* the callee of call statement k is an identifier or a property access
\* under its wrappers, and the identifier that names it
namedCallee(k) ==
    coreOf(callOf(k).expression).kind \in {"Identifier", "PropertyAccessExpression"}

calleeIdentifier(k) ==
    LET core == coreOf(callOf(k).expression) IN
    IF core.kind = "Identifier" THEN core ELSE core.name

elementCallee(k) ==
    coreOf(callOf(k).expression).kind = "ElementAccessExpression"

\* candidate l is the direct-call candidate of call statement k
directCandidateOf(l, k) ==
    /\ calls[l].kind = "directCall"
    /\ calls[l].start = calleeIdentifier(k).pos
    /\ calls[l].end = callOf(k).end
    /\ calls[l].calleeName = calleeIdentifier(k).text

\* no candidate lies in call statement k
noCandidateIn(k) ==
    \A l \in 1..Len(calls) :
        ~(calls[l].start >= callOf(k).pos /\ calls[l].end <= callOf(k).end)

\* C20 (callee unwrapping bound): a call whose callee is an identifier or a
\* property access wrapped in at most 8 layers of parentheses, non-null
\* assertions, type assertions or satisfies-wrappers yields a direct-call
\* candidate that carries the underlying identifier name; with more than 8
\* layers no callee identifier is found and no candidate is produced for
\* the call; a call with an element-access callee yields no candidate.
C20_UnwrapBound ==
    pc = "scanned" =>
        \A k \in callStatements :
            /\ (namedCallee(k) /\ layersOf(callOf(k).expression) <= 8) =>
                   \E l \in 1..Len(calls) : directCandidateOf(l, k)
            /\ (namedCallee(k) /\ layersOf(callOf(k).expression) > 8) =>
                   noCandidateIn(k)
            /\ elementCallee(k) => noCandidateIn(k)

\* a file was scanned in which a property access under exactly 8 wrapper
\* layers of several kinds yielded its candidate and an identifier under 9
\* layers yielded none
C20_Witness ==
    /\ pc = "scanned"
    /\ \E j, k \in callStatements :
           /\ coreOf(callOf(j).expression).kind = "PropertyAccessExpression"
           /\ layersOf(callOf(j).expression) = 8
           /\ \E e \in {callOf(j).expression.expression} :
                  e.kind # "ParenthesizedExpression"
           /\ \E l \in 1..Len(calls) :
                  directCandidateOf(l, j) /\ calls[l].calleeName = "fn"
           /\ coreOf(callOf(k).expression).kind = "Identifier"
           /\ layersOf(callOf(k).expression) = 9
           /\ noCandidateIn(k)

\* ------------------------------------------------------------------------
\* Type-only imports
\* ------------------------------------------------------------------------
importStatements ==
    SelectSeq(sf.statements, LAMBDA s : s.kind = "ImportDeclaration")

\* what statement s binds name n as: a set of "value", "type",
\* "namespace", "typeNamespace"
bindingsOf(s, n) ==
    LET ic == s.importClause
        nb == ic.namedBindings
    IN  (IF ic.name = n
         THEN {IF ic.isTypeOnly THEN "type" ELSE "value"} ELSE {})
        \cup (IF nb.kind = "NamedImports"
              THEN {IF ic.isTypeOnly \/ nb.elements[i].isTypeOnly
                    THEN "type" ELSE "value" :
                        i \in {j \in 1..Len(nb.elements) : nb.elements[j].name = n}}
              ELSE {})
        \cup (IF nb.kind = "NamespaceImport" /\ nb.name = n
              THEN {IF ic.isTypeOnly THEN "typeNamespace" ELSE "namespace"}
              ELSE {})

bindings(n) ==
    UNION {bindingsOf(importStatements[i], n) : i \in 1..Len(importStatements)}

\* n is bound by import statements, and only type-only ones
typeOnlyName(n) ==
    bindings(n) # {} /\ bindings(n) \subseteq {"type", "typeNamespace"}

\* candidate c is a call of a name that only type-only imports bind and the
\* file does not declare: n() or n.property()
callsTypeOnlyName(c) ==
    \/ /\ c.qualifierName = NoName
       /\ typeOnlyName(c.calleeName)
       /\ c.calleeName \notin locals
    \/ /\ c.qualifierName # NoName
       /\ typeOnlyName(c.qualifierName)
       /\ bindings(c.calleeName) = {}
       /\ c.calleeName \notin locals

\* C21 (type-only imports never enable a call): a name bound only by a
\* type-only import statement or a type-only import specifier is not in
\* importedNames; a name is in namespaceImportNames exactly when a namespace
\* import that is not type-only binds it; and a call of a name that only
\* type-only imports bind, with no local declaration of it, is never passed
\* to the oracle and never appears in callRanges, whatever the oracle answers.
C21_TypeOnlyImportsNeverEnable ==
    /\ \A n \in ImportedLocalNames :
          /\ typeOnlyName(n) => n \notin imported
          /\ n \in nsImports <=> "namespace" \in bindings(n)
    /\ \A i \in 1..N :
          callsTypeOnlyName(orderedCalls[i]) => rejectedUnseen(i)

\* the pass has returned after going past a call of a type-only name, with
\* an oracle that answered true to every call made
C21_Witness ==
    /\ returned
    /\ admitted # <<>>
    /\ \A t \in admittedCands : oracle[t] = "true" /\ raceBy[t] = "oracle"
    /\ \E i \in 1..N :
           /\ callsTypeOnlyName(orderedCalls[i])
           /\ passed(i)

\* ------------------------------------------------------------------------
\* Exclusion patterns
\* ------------------------------------------------------------------------
\* the list of pattern sources the setting stands for
configuredList ==
    CASE excludeSetting.kind = "unset" -> DefaultExclude
      [] excludeSetting.kind = "array" -> excludeSetting.value
      [] OTHER -> <<>>

\* C26 (invalid exclusion patterns are ignored individually): the compiled
\* list is the configured list without the patterns that are no valid
\* regular expression, in the same order, and a file name is excluded
\* exactly when some valid pattern of the configured list, before or after
\* an invalid one, matches its normalized path; compiling does not throw.
C26_InvalidPatternsIgnoredIndividually ==
    excludedAnswer # "none" =>
        /\ excludedAnswer \in {"true", "false"}
        /\ regs = SelectSeq(configuredList, LAMBDA p : p.valid)
        /\ excludedAnswer = "true" <=>
              \E k \in 1..Len(configuredList) :
                  /\ configuredList[k].valid
                  /\ test(configuredList[k], normalized(testedFileName))

\* a file name excluded by a valid pattern that comes after an invalid one
C26_Witness ==
    /\ excludedAnswer = "true"
    /\ \E j, k \in 1..Len(configuredList) :
           /\ j < k
           /\ ~configuredList[j].valid
           /\ configuredList[k].valid
           /\ test(configuredList[k], normalized(testedFileName))
           /\ \A m \in 1..Len(configuredList) :
                 m # k => ~(configuredList[m].valid
                            /\ test(configuredList[m], normalized(testedFileName)))

\* ------------------------------------------------------------------------
\* Properties of the updater and the debounced controller
\* ------------------------------------------------------------------------
\* the setDecorations calls run r has made
callsOf(r) == SelectSeq(decorationCalls, LAMBDA c : c.run = r)

\* C22 (stale-pass suppression): updateEditor applies the ranges of a pass
\* only if no later updateEditor call has started since that pass's call
\* began (its run id is still the value of seq), and the setDecorations
\* calls of an older run never come after those of a newer one.
C22_StalePassSuppressed ==
    /\ [][\A k \in (Len(decorationCalls) + 1)..Len(decorationCalls') :
             decorationCalls'[k].value = "ranges" =>
                 decorationCalls'[k].run = seq]_vars
    /\ [](\A i, j \in 1..Len(decorationCalls) :
             i < j => decorationCalls[i].run <= decorationCalls[j].run)

\* a pass was superseded and dropped, and the later pass of the same editor
\* was applied
C22_Witness ==
    \E r, t \in 1..Len(runs) :
        /\ r < t
        /\ runs[r].editor = runs[t].editor
        /\ runs[r].stage = "stale"
        /\ runs[t].stage = "applied"

\* the controllers that were created and not aborted
liveControllers == (1..seq) \ abortedControllers

\* C23 (previous-pass cancellation): at most one pass holds a non-aborted
\* signal, that of the latest updateEditor call, and a superseded pass makes
\* no further oracle call once its successor has started.
C23_PreviousPassCancelled ==
    /\ [](liveControllers \subseteq {currentAbort})
    /\ [][\A r \in 1..Len(runs) :
             r < seq => runs'[r].oracleCalls = runs[r].oracleCalls]_vars

\* the document of editor e is not TypeScript/TSX, or a valid pattern of the
\* configured list matches its normalized path
bypassed(e) ==
    \/ Editors[e].languageId \notin {"typescript", "typescriptreact"}
    \/ \E k \in 1..Len(configuredList) :
          /\ configuredList[k].valid
          /\ test(configuredList[k], normalized(Editors[e].fileName))

\* C24 (file exclusion bypass): for a document whose normalized path matches
\* an exclusion pattern or whose language is not TypeScript/TSX, updateEditor
\* clears the three decoration sets, does not call computeHighlights and
\* makes no oracle call.
C24_ExcludedFilesBypass ==
    \A r \in 1..Len(runs) :
        (runs[r].editor # 0 /\ bypassed(runs[r].editor)) =>
            /\ runs[r].stage = "cleared"
            /\ runs[r].oracleCalls = 0
            /\ Len(callsOf(r)) = 3
            /\ {<<callsOf(r)[k].kind, callsOf(r)[k].value>> : k \in 1..Len(callsOf(r))}
                  = {<<"body", "empty">>, <<"call", "empty">>, <<"icon", "empty">>}

\* updateEditor has run for a TypeScript document that only the exclusion
\* list (with an invalid pattern before the matching one) keeps out, and
\* for a document in another language
C24_Witness ==
    /\ excludeSetting.kind = "array"
    /\ \E r, t \in 1..Len(runs) :
           /\ runs[r].editor # 0
           /\ Editors[runs[r].editor].languageId = "typescript"
           /\ bypassed(runs[r].editor)
           /\ runs[t].editor # 0
           /\ Editors[runs[t].editor].languageId = "javascript"

\* C25 (a failed pass leaves the display unchanged): when computeHighlights
\* rejects during an updateEditor run, that run makes no setDecorations call
\* at all, so the decorations applied before stay as they were.
C25_FailedPassLeavesDisplay ==
    /\ [](\A r \in 1..Len(runs) :
             runs[r].stage = "failed" => callsOf(r) = <<>>)
    /\ [][\A r \in 1..Len(runs) :
             (runs[r].stage = "awaiting" /\ runs'[r].stage = "failed")
                 => decorationCalls' = decorationCalls]_vars

\* a pass failed for an editor that shows the decorations of an earlier run
C25_Witness ==
    \E r, t \in 1..Len(runs) :
        /\ r < t
        /\ runs[r].editor = runs[t].editor
        /\ runs[r].stage = "applied"
        /\ runs[t].stage = "failed"

\* the timers that are armed
armed == {h \in 1..Len(timers) : timers[h] \in {"pending", "due"}}

\* C27 (debounced triggering): at most one update timer is pending at any
\* time; updateEditor is called only by the timer armed by the last trigger
\* event, once 200 ms have passed since that event, and leaves no timer
\* pending (one call per burst); and a pending timer leads to a state with
\* no timer pending, which only its updateEditor call brings about.
C27_Debounced ==
    /\ [](Cardinality(armed) <= 1)
    /\ [][seq' # seq =>
             /\ seq' = seq + 1
             /\ armed = {Len(timers)}
             /\ timers[Len(timers)] = "due"
             /\ armed' = {}]_vars
    /\ (armed # {}) ~> (armed = {})

\* a burst of three trigger events has led to one updateEditor call
C27_Witness ==
    /\ Len(timers) = 3
    /\ timers = <<"cleared", "cleared", "fired">>
    /\ seq = 1

\* C28 (no use of disposed decorations): updateEditor never calls
\* setDecorations with a decoration type that has been disposed.
C28_NoDisposedDecorations ==
    \A k \in 1..Len(decorationCalls) : decorationCalls[k].live

\* ------------------------------------------------------------------------
\* Properties of the resolve function
\* ------------------------------------------------------------------------
\* C29 (bounded oracle chasing): one call of the resolve function takes at
\* most 3 entries off the worklist, entries skipped as already visited
\* included; it never processes the same (document, offset) pair twice; and
\* it returns a boolean, also when the links lead back to visited positions.
C29_BoundedChasing ==
    /\ [](Len(dequeued) <= 3)
    /\ [](\A i, j \in 1..Len(dequeued) :
             (i # j /\ dequeued[i].processed /\ dequeued[j].processed)
                 => dequeued[i].entry # dequeued[j].entry)
    /\ <>(resolved \in {"true", "false"})

\* the call has returned false at the hop limit with entries left on the
\* worklist, after a link led back to a visited position
C29_Witness ==
    /\ resolved = "false"
    /\ Len(dequeued) = 3
    /\ resolveQueue # <<>>
    /\ \E i \in 1..Len(dequeued) : ~dequeued[i].processed

\* location l starts within the identifier range or the body range, bounds
\* included, of an action definition of its document
startsInAction(l) ==
    /\ l.uri \in WorkspaceUris
    /\ \E k \in 1..Len(WorkspaceActions[l.uri]) :
          LET a == WorkspaceActions[l.uri][k] IN
          \/ a.nameStart # NoOffset /\ a.nameStart <= l.offset
                                    /\ l.offset <= a.nameEnd
          \/ a.bodyStart <= l.offset /\ l.offset <= a.bodyEnd

\* C30 (oracle soundness): the resolve function returns true only if a
\* location returned by the lookups for a processed worklist entry starts
\* within the identifier range or the body range (bounds inclusive) of an
\* action definition of that location's document; as long as no such
\* location has been returned it goes on or returns false.
C30_OracleSoundness ==
    /\ resolved = "true" => \E l \in located : startsInAction(l)
    /\ resolved # "true" => \A l \in located : ~startsInAction(l)

\* true was returned on the third hop for a location at the last offset of
\* the body of act
C30_Witness ==
    /\ resolved = "true"
    /\ hops = 3
    /\ Location("file:a", 84) \in located
    /\ \A l \in located : startsInAction(l) => l = Location("file:a", 84)

\* ------------------------------------------------------------------------
\* Properties of the pool accounting and of the returned result
\* ------------------------------------------------------------------------
\* the tasks whose wrapper has started and has not run its finally block
holdingSlot == {t \in 1..N : stage[t] \in {"racing", "finished"}}

\* the tasks whose promise p has not removed itself from the queue
listed == {t \in 1..N : stage[t] \in {"racing", "finished", "settled"}}

\* how a finished task came to its end
outcome(t) ==
    IF raceBy[t] = "timer" THEN "timedOut"
    ELSE IF raceBy[t] = "oracle" THEN oracle[t]
    ELSE "none"

\* C31 (slot release on any completion): in a pass run with controls the
\* counter inFlight is decremented exactly once for every admitted task when
\* it finishes, whether the oracle answered true or false, timed out or
\* threw: inFlight always equals the number of tasks that have started and
\* not run their finally block, it goes down by one in exactly the steps in
\* which a task's wrapper ends, the queue holds exactly the tasks whose
\* promise has not removed itself, and once every admitted task has finished
\* and removed itself the counter is 0 and the queue is empty.
C31_SlotReleasedOnAnyCompletion ==
    /\ [](useBounds =>
            /\ inFlight = Cardinality(holdingSlot)
            /\ Range(queue) = listed
            /\ Len(queue) = Cardinality(listed)
            /\ (\A t \in admittedCands : stage[t] = "removed")
                  => (inFlight = 0 /\ queue = <<>>))
    /\ [][useBounds =>
            /\ \A t \in 1..N :
                  (stage[t] = "finished" /\ stage'[t] = "settled")
                      => inFlight' = inFlight - 1
            /\ inFlight' < inFlight
                  => \E t \in 1..N :
                        /\ stage[t] = "finished" /\ stage'[t] = "settled"
                        /\ \A u \in 1..N : u # t => stage'[u] = stage[u]]_vars

\* three admitted tasks have finished, one because the oracle threw, one by
\* its timeout and one with an answer, and all slots are free again
C31_Witness ==
    /\ useBounds
    /\ \E t, u, w \in admittedCands :
          /\ outcome(t) = "throw"
          /\ outcome(u) = "timedOut"
          /\ outcome(w) \in {"true", "false"}
    /\ \A t \in admittedCands : stage[t] = "removed"
    /\ inFlight = 0
    /\ queue = <<>>

\* the oracle has not answered the call made for candidate t
unanswered(t) == oracle[t] = "pending"

\* C32 (termination under an unresponsive oracle): a pass run with controls
\* and maxConcurrent >= 1 eventually returns (or fails because an oracle call
\* threw in time), also when no oracle call ever settles, since every
\* admitted resolution ends by its timeout; the span of a candidate whose
\* oracle call has not settled is not in callRanges.
C32_TerminatesWithUnresponsiveOracle ==
    /\ (useBounds /\ maxConcurrent >= 1)
          ~> (returned \/ \E t \in 1..N : rejected(t))
    /\ [](\A t \in 1..N :
             unanswered(t) => site(orderedCalls[t]) \notin Range(callRanges))

\* the pass has returned although none of its oracle calls was answered; it
\* had to wait for a slot of the full pool on the way
C32_Witness ==
    /\ useBounds
    /\ returned
    /\ Len(admitted) > maxConcurrent
    /\ \A t \in admittedCands : unanswered(t) /\ raceBy[t] = "timer"
    /\ \A t \in admittedCands : site(orderedCalls[t]) \notin Range(callRanges)

\* C33 (definition ranges are independent of resolution): bodyRanges and
\* iconRanges are a function of the source text alone: no step of a pass or
\* of its resolution tasks changes them, and a second pass over the same text
\* has the same bodyRanges and iconRanges as the first, whatever the options
\* (none, bounds, visible range) of either pass, the answers and timeouts of
\* the oracle and the order in which the resolutions completed.
C33_DefinitionRangesIndependent ==
    /\ [](firstResult.known =>
             /\ bodyRanges = firstResult.bodyRanges
             /\ iconRanges = firstResult.iconRanges)
    /\ [][bodyRanges' = bodyRanges /\ iconRanges' = iconRanges]_vars

\* a second pass, run with a visible range, has returned call ranges other
\* than the first pass after one of its resolutions timed out, and the
\* definition ranges of the two passes are the same non-empty lists
C33_Witness ==
    /\ firstResult.known
    /\ returned
    /\ vr # NoRange
    /\ \E t \in 1..N : raceBy[t] = "timer"
    /\ callRanges # firstResult.callRanges
    /\ bodyRanges # <<>> /\ bodyRanges = firstResult.bodyRanges
    /\ iconRanges # <<>> /\ iconRanges = firstResult.iconRanges

\* C34 (result stability after return): once computeHighlights has returned,
\* the returned callRanges list is never modified again: no resolution task
\* of the pass appends a range to it after the caller has received it.
C34_ResultStableAfterReturn ==
    [][returned => callRanges' = callRanges]_vars

\* candidate i was accepted: it is an entry-point attribute, or its callee
\* has the name of an action of the same file, or the oracle answered true
\* to its call before the timeout
accepted(i) ==
    \/ isAttribute(orderedCalls[i])
    \/ isLocalAction(orderedCalls[i])
    \/ raceBy[i] = "oracle" /\ oracle[i] = "true"

\* the resolution of candidate i ended negatively: the oracle answered false
\* or the timer fired first
refused(i) ==
    \/ raceBy[i] = "timer"
    \/ raceBy[i] = "oracle" /\ oracle[i] = "false"

\* C35 (no false positives in callRanges): in every reachable state, each
\* range in callRanges is the span of an extracted candidate that is an
\* entry-point attribute, or has a calleeName equal to a same-file action
\* name, or received the answer true from the oracle before its timeout; a
\* candidate whose oracle answer was false or which timed out, and which is
\* neither of the first two, never appears.
C35_NoFalsePositives ==
    /\ \A k \in 1..Len(callRanges) :
          \E i \in 1..N :
              /\ site(orderedCalls[i]) = callRanges[k]
              /\ orderedCalls[i] \in Range(calls)
              /\ accepted(i)
    /\ \A i \in 1..N :
          (refused(i) /\ ~isAttribute(orderedCalls[i])
                      /\ ~isLocalAction(orderedCalls[i]))
              => site(orderedCalls[i]) \notin Range(callRanges)

\* the returned callRanges hold the span of a candidate the oracle accepted
\* and of one accepted without the oracle, and not the span of a third
\* candidate, to which the oracle answered false
C35_Witness ==
    /\ returned
    /\ \E i, j, k \in 1..N :
          /\ raceBy[i] = "oracle" /\ oracle[i] = "true"
          /\ site(orderedCalls[i]) \in Range(callRanges)
          /\ isAttribute(orderedCalls[j]) \/ isLocalAction(orderedCalls[j])
          /\ site(orderedCalls[j]) \in Range(callRanges)
          /\ raceBy[k] = "oracle" /\ oracle[k] = "false"
          /\ site(orderedCalls[k]) \notin Range(callRanges)

\* no call of resolveFn of this pass has thrown
oracleNeverThrew == \A t \in 1..N : oracle[t] # "throw"

\* C36 (over-admission bound): in a pass run with controls, with
\* maxConcurrent >= 1 and an oracle that never throws, the number of calls of
\* resolveFn made by the pass never exceeds maxResolutions + maxConcurrent:
\* the counter compared with maxResolutions counts the finished resolutions,
\* and at most maxConcurrent admitted resolutions are unfinished at any time.
C36_OverAdmissionBound ==
    (useBounds /\ maxConcurrent >= 1 /\ oracleNeverThrew) =>
        /\ Len(admitted) <= maxResolutions + maxConcurrent
        /\ Len(admitted) = resolutions + Cardinality(racingCands)
        /\ Cardinality(racingCands) <= maxConcurrent

\* the pass has returned after maxResolutions + maxConcurrent calls of
\* resolveFn, none of which threw, and left a candidate that needed the
\* oracle without a call
C36_Witness ==
    /\ useBounds
    /\ oracleNeverThrew
    /\ returned
    /\ Len(admitted) = maxResolutions + maxConcurrent
    /\ \E i \in 1..N : needsOracle(i) /\ i \notin admittedCands

\* the spans in the order the rules of scanServerActions discover them,
\* before pushAction
discoveredActions ==
    actionWalkAll(sf.statements, isUseServerPrologue(sf.statements))

sameBody(a, b) == a.bodyStart = b.bodyStart /\ a.bodyEnd = b.bodyEnd

\* how often the body of span a is discovered
discoveries(a) ==
    Cardinality({k \in 1..Len(discoveredActions) :
                    sameBody(discoveredActions[k], a)})

\* the first discovered span with the body of a
firstDiscoveredAction(a) ==
    discoveredActions[CHOOSE k \in 1..Len(discoveredActions) :
        /\ sameBody(discoveredActions[k], a)
        /\ \A j \in 1..(k - 1) : ~sameBody(discoveredActions[j], a)]

\* the declarations `const name = initializer` of the statements of the file
variableDeclarations ==
    UNION {Range(sf.statements[k].declarations) :
              k \in {j \in 1..Len(sf.statements) :
                        sf.statements[j].kind = "VariableStatement"}}

\* C37 (definition deduplication): the list returned by scanServerActions
\* never contains two spans with the same (bodyStart, bodyEnd); of the spans
\* discovered for one function by several rules (direct variable binding,
\* nested-initializer visit, generic inline rule) exactly one is kept, the
\* first, so a function bound to or nested in a variable initializer is
\* reported under the variable's name and name range, not as '(inline)'.
C37_DefinitionsDeduplicated ==
    pc # "parsed" =>
        /\ \A i, j \in 1..Len(spans) :
               i # j => ~sameBody(spans[i], spans[j])
        /\ \A i \in 1..Len(spans) :
               /\ discoveries(spans[i]) >= 1
               /\ spans[i] = firstDiscoveredAction(spans[i])
        /\ \A k \in 1..Len(discoveredActions) :
               \E i \in 1..Len(spans) : sameBody(spans[i], discoveredActions[k])
        /\ \A d \in variableDeclarations :
               (isIdentifier(d.name) /\ d.initializer # NoNode) =>
                   \A f \in Range(functionsIn(d.initializer, FALSE)) :
                       \A i \in 1..Len(spans) :
                           reportedFor(i, f) =>
                               /\ spans[i].name = d.name.text
                               /\ spans[i].name # "(inline)"
                               /\ spans[i].nameStart = d.name.pos
                               /\ spans[i].nameEnd = d.name.end

\* a function bound to a variable was discovered by all three rules and one
\* passed to a call in an initializer by two; each is reported once, under
\* the name of its variable
C37_Witness ==
    /\ pc # "parsed"
    /\ Len(spans) = 2
    /\ \E i, j \in 1..Len(spans) :
           /\ discoveries(spans[i]) = 3
           /\ discoveries(spans[j]) = 2
           /\ spans[i].name \in {"act", "loc"}
           /\ spans[j].name \in {"act", "loc"}
           /\ \E k \in 1..Len(discoveredActions) :
                  /\ sameBody(discoveredActions[k], spans[j])
                  /\ discoveredActions[k].name = "(inline)"

\* a range lies within the text
wellFormed(r) == 0 <= r.start /\ r.start <= r.end /\ r.end <= sf.length

\* p is the offset at which the line holding offset `at` begins
beginsLineOf(p, at) ==
    /\ p <= at
    /\ p = 0 \/ (p - 1) \in sf.lineFeeds
    /\ \A b \in sf.lineFeeds : ~(p <= b /\ b < at)

\* p is the offset at which the line holding offset `at` ends: its line
\* feed, or the end of the text
endsLineOf(p, at) ==
    /\ at <= p
    /\ p = sf.length \/ p \in sf.lineFeeds
    /\ \A b \in sf.lineFeeds : ~(at <= b /\ b < p)

\* the body reported in span s is a block: its text begins with '{'
beginsWithBrace(s) ==
    \E j \in 1..Len(functions) :
        /\ functions[j].node.body # NoNode
        /\ functions[j].node.body.kind = "Block"
        /\ functions[j].node.body.pos = s.bodyStart

\* the reported definitions whose body begins with '{'
braced == SelectSeq(spans, beginsWithBrace)

\* the definition ranges are as the claim describes them
definitionRangesWellFormed ==
    /\ \A r \in Range(bodyRanges) \cup Range(iconRanges) : wellFormed(r)
    /\ Len(bodyRanges) = Len(spans)
    /\ \A i \in 1..Len(spans) :
          /\ beginsLineOf(bodyRanges[i].start, spans[i].bodyStart)
          /\ endsLineOf(bodyRanges[i].end, spans[i].bodyEnd)
    /\ Len(iconRanges) = Len(braced)
    /\ \A k \in 1..Len(iconRanges) :
          /\ iconRanges[k].start = iconRanges[k].end
          /\ endsLineOf(iconRanges[k].end, braced[k].bodyStart)
    /\ Len(iconRanges) <= Len(bodyRanges)

\* C38 (range well-formedness): every range in bodyRanges, iconRanges and
\* callRanges satisfies 0 <= start <= end <= length of the source text; there
\* is one body range per definition, which starts at the beginning of the
\* line containing bodyStart and ends at the end of the line containing
\* bodyEnd; there is one icon range per definition whose body begins with
\* '{', zero-width at the end of the line containing the opening brace, so
\* iconRanges is never longer than bodyRanges.  (The definition ranges are
\* so when the candidate loop begins and no later step changes them or the
\* text; the call ranges are within the text in every state.)
C38_RangesWellFormed ==
    /\ definitionRangesWellFormed
    /\ [][UNCHANGED <<sf, spans, bodyRanges, iconRanges>>]_vars
    /\ [](\A r \in Range(callRanges) : wellFormed(r))

\* the pass has returned two call ranges for a text of several lines with
\* two definitions, one of which has an expression as body: two body ranges,
\* the first not at the start of the text, and one icon range
C38_Witness ==
    /\ returned
    /\ sf.lineFeeds # {}
    /\ Len(callRanges) >= 2
    /\ Len(bodyRanges) = 2
    /\ bodyRanges[1].start > 0
    /\ bodyRanges[1] # bodyRanges[2]
    /\ Len(iconRanges) = 1

====
